---- MODULE Spec2Model ----
(***************************************************************************)
(* The generic tree-selection engine (TreeList) of the selection wizard,   *)
(* with the host state it is wired to (the selected-names array owned by   *)
(* App, the tree handed down by the Category / Geography wrappers, the     *)
(* summary panel of SelectionWizard).                                      *)
(*                                                                         *)
(* React is modelled by what the component relies on: a handler only       *)
(* queues state updates (it reads the values of the last render), Render   *)
(* applies the queued updates in order, and Effects runs the useEffect     *)
(* bodies whose dependencies changed, in declaration order, which queues   *)
(* further updates.                                                        *)
(***************************************************************************)
EXTENDS Integers, Sequences, FiniteSets, TLC

\* How many handler invocations may be queued before React renders.
MaxPending == 1

\* How many calls of onResetComplete are counted.
MaxAcks == 2

\* The operations issued back to back, before the engine renders again.
MaxBurst == 2

\* The operations of a run of back-to-back operations, set-up included.
MaxOps == 3

\* productID / categoryID / geographyID are `number | null`.
Null == -1

(***************************************************************************)
(* Nodes.  A node is a record with the fields of CategoryNode or of        *)
(* GeographyNode that the engine reads.                                    *)
(***************************************************************************)
CatNode(pid, cid, name, canSub, kids) ==
    [productID |-> pid, categoryID |-> cid, productName |-> name,
     canSelectsubcategories |-> canSub, categories |-> kids]

GeoNode(gid, name, canSub, kids) ==
    [geographyID |-> gid, geographyName |-> name,
     canSelectSubGeographies |-> canSub, geographies |-> kids]

\* String(n) for the ids the trees below use.
NumStr(n) == <<"0", "1", "2", "3", "4", "5", "6", "7", "8", "9">>[n + 1]

isCategoryNode(node) == "productName" \in DOMAIN node /\ "categories" \in DOMAIN node

isGeographyNode(node) == "geographyName" \in DOMAIN node /\ "geographies" \in DOMAIN node

getNodeKey(node) ==
    IF isCategoryNode(node)
    THEN IF node.productID # Null THEN NumStr(node.productID)
         ELSE IF node.categoryID # Null THEN NumStr(node.categoryID)
         ELSE node.productName
    ELSE IF node.geographyID # Null THEN NumStr(node.geographyID)
         ELSE node.geographyName

getNodeName(node) ==
    IF isCategoryNode(node) THEN node.productName ELSE node.geographyName

getNodeChildren(node) ==
    IF isCategoryNode(node) THEN node.categories ELSE node.geographies

getCanSelectSubItems(node) ==
    IF isCategoryNode(node) THEN node.canSelectsubcategories
    ELSE node.canSelectSubGeographies

(***************************************************************************)
(* The trees the wrappers hand to the engine.  CatFull is the category     *)
(* hierarchy A{A1, A2{A2a}}; CatFiltered is what the search bar's          *)
(* filterItems leaves of it for a query matching only A2a; CatNone is the  *)
(* empty result.  GeoFull is a geography hierarchy of the same shape.      *)
(* A1 has no productID (its key is its categoryID), and the geography      *)
(* leaf G2a has no id at all (its key is its name).                        *)
(***************************************************************************)
CatFull ==
    << CatNode(1, Null, "A", TRUE,
         << CatNode(Null, 7, "A1", FALSE, <<>>),
            CatNode(3, 8, "A2", TRUE, << CatNode(4, Null, "A2a", FALSE, <<>>) >>) >>) >>

CatFiltered ==
    << CatNode(1, Null, "A", TRUE,
         << CatNode(3, 8, "A2", TRUE, << CatNode(4, Null, "A2a", FALSE, <<>>) >>) >>) >>

CatNone == <<>>

\* The category hierarchy with a second root: A{A1, A2{A2a}}, B{B1}.
CatWide ==
    CatFull \o << CatNode(2, Null, "B", TRUE, << CatNode(5, Null, "B1", FALSE, <<>>) >>) >>

\* A category hierarchy in which two nodes carry the name X: A{B{X}, X}.
CatTwins ==
    << CatNode(1, Null, "A", TRUE,
         << CatNode(2, Null, "B", TRUE, << CatNode(5, Null, "X", FALSE, <<>>) >>),
            CatNode(6, Null, "X", FALSE, <<>>) >>) >>

GeoFull ==
    << GeoNode(1, "G", TRUE,
         << GeoNode(2, "G1", FALSE, <<>>),
            GeoNode(3, "G2", TRUE, << GeoNode(Null, "G2a", FALSE, <<>>) >>) >>) >>

GeoFiltered ==
    << GeoNode(1, "G", TRUE,
         << GeoNode(3, "G2", TRUE, << GeoNode(Null, "G2a", FALSE, <<>>) >>) >>) >>

TreesOf(type) ==
    IF type = "category" THEN {CatFull, CatFiltered, CatNone}
    ELSE {GeoFull, GeoFiltered, CatNone}

\* The nodes of a subtree and of a tree, as sets.
RECURSIVE Subtree(_)
Subtree(n) ==
    {n} \cup UNION {Subtree(getNodeChildren(n)[i]) : i \in 1..Len(getNodeChildren(n))}

NodesOf(tree) == UNION {Subtree(tree[i]) : i \in 1..Len(tree)}

Roots(tree) == {tree[i] : i \in 1..Len(tree)}

IsLeaf(n) == Len(getNodeChildren(n)) = 0

(***************************************************************************)
(* SelectionMap: an object { [key: string]: boolean }, here a function     *)
(* whose domain is the set of keys present.                                *)
(***************************************************************************)
EmptyMap == [k \in {} |-> FALSE]

\* !!map[key]: an absent entry reads as false.
Get(map, key) == IF key \in DOMAIN map THEN map[key] ELSE FALSE

\* map[key] = value on a copy.
Put(map, key, value) ==
    [k \in DOMAIN map \cup {key} |-> IF k = key THEN value ELSE map[k]]

\* Array.prototype.includes
Includes(arr, x) == \E i \in 1..Len(arr) : arr[i] = x

\* arr.filter(item => item !== x)
RECURSIVE Without(_, _)
Without(arr, x) ==
    IF Len(arr) = 0 THEN <<>>
    ELSE IF Head(arr) = x THEN Without(Tail(arr), x)
         ELSE <<Head(arr)>> \o Without(Tail(arr), x)

(***************************************************************************)
(* Tree walks of tree-list.tsx.                                            *)
(***************************************************************************)
\* (mutant) collectAllNodes without the descent into the children.
collectOnlyNode(n) == <<n>>

\* collectAllNodes: the node, then its descendants, depth first.
RECURSIVE collectAllNodes(_)
RECURSIVE collectAllOf(_)
collectAllNodes(n) == <<n>> \o collectAllOf(getNodeChildren(n))
collectAllOf(nodes) ==
    IF Len(nodes) = 0 THEN <<>>
    ELSE collectAllNodes(Head(nodes)) \o collectAllOf(Tail(nodes))

\* (mutant) collectNames without the descent into the children.
collectRootNames(nodes) == [i \in 1..Len(nodes) |-> getNodeName(nodes[i])]

\* collectNames: every node's display name, parents before children.
RECURSIVE collectNames(_)
collectNames(nodes) ==
    IF Len(nodes) = 0 THEN <<>>
    ELSE <<getNodeName(Head(nodes))>> \o collectNames(getNodeChildren(Head(nodes)))
         \o collectNames(Tail(nodes))

\* (mutant) selectLowest collecting every node it visits.
selectLowestAll(n) == collectAllNodes(n)

\* selectLowest's lowestNodes: the leaves under n, in traversal order.
RECURSIVE selectLowest(_)
RECURSIVE selectLowestOf(_)
selectLowest(n) ==
    IF Len(getNodeChildren(n)) = 0 THEN <<n>> ELSE selectLowestOf(getNodeChildren(n))
selectLowestOf(nodes) ==
    IF Len(nodes) = 0 THEN <<>>
    ELSE selectLowest(Head(nodes)) \o selectLowestOf(Tail(nodes))

NamesOfNodes(nodes) == [i \in 1..Len(nodes) |-> getNodeName(nodes[i])]

\* A search that looks at all the nodes of a level before their children.
RECURSIVE findNodeByNameLevelFirst(_, _)
findNodeByNameLevelFirst(nodes, name) ==
    LET here == SelectSeq(nodes, LAMBDA n : getNodeName(n) = name)
        RECURSIVE below(_)
        below(ns) == IF Len(ns) = 0 THEN <<>>
                     ELSE getNodeChildren(Head(ns)) \o below(Tail(ns))
    IN IF Len(nodes) = 0 THEN <<>>
       ELSE IF here # <<>> THEN <<Head(here)>>
       ELSE findNodeByNameLevelFirst(below(nodes), name)

\* findNodeByName: the first node, depth first, with that display name.
RECURSIVE findNodeByName(_, _)
findNodeByName(nodes, name) ==
    IF Len(nodes) = 0 THEN <<>>
    ELSE IF getNodeName(Head(nodes)) = name THEN <<Head(nodes)>>
         ELSE IF findNodeByName(getNodeChildren(Head(nodes)), name) # <<>>
              THEN findNodeByName(getNodeChildren(Head(nodes)), name)
              ELSE findNodeByName(Tail(nodes), name)

\* (mutant) markSelectedNodes whose walk stops at the roots.
RECURSIVE markSelectedRootsOnly(_, _, _)
markSelectedRootsOnly(nodes, arr, map) ==
    IF Len(nodes) = 0 THEN map
    ELSE markSelectedRootsOnly(Tail(nodes), arr,
             IF Includes(arr, getNodeName(Head(nodes)))
             THEN Put(map, getNodeKey(Head(nodes)), TRUE) ELSE map)

\* (mutant) markSelectedNodes looking the node's key up in the array.
RECURSIVE markSelectedByKey(_, _, _)
markSelectedByKey(nodes, arr, map) ==
    IF Len(nodes) = 0 THEN map
    ELSE LET node == Head(nodes)
             m1 == IF Includes(arr, getNodeKey(node))
                   THEN Put(map, getNodeKey(node), TRUE) ELSE map
         IN markSelectedByKey(Tail(nodes), arr,
                              markSelectedByKey(getNodeChildren(node), arr, m1))

\* markSelectedNodes of the inbound sync effect: newSelection[key] = true for
\* each node whose name the array includes; no entry is written otherwise.
RECURSIVE markSelectedNodes(_, _, _)
markSelectedNodes(nodes, arr, map) ==
    IF Len(nodes) = 0 THEN map
    ELSE LET node == Head(nodes)
             m1 == IF Includes(arr, getNodeName(node))
                   THEN Put(map, getNodeKey(node), TRUE) ELSE map
             m2 == IF Len(getNodeChildren(node)) > 0
                   THEN markSelectedNodes(getNodeChildren(node), arr, m1) ELSE m1
         IN markSelectedNodes(Tail(nodes), arr, m2)

\* (mutant) isAllCurrentlySelected that never finds everything selected.
isNeverAllSelected(tree, arr) == FALSE

\* isAllCurrentlySelected of the inbound sync effect.
isAllCurrentlySelected(tree, arr) ==
    /\ Len(collectNames(tree)) > 0
    /\ \A i \in 1..Len(collectNames(tree)) : Includes(arr, collectNames(tree)[i])

\* (mutant) setNodeSelection without the descent into the children.
setNodeSelectionShallow(node, isSelected, map) == Put(map, getNodeKey(node), isSelected)

\* setNodeSelection: the node's entry and every descendant's.
RECURSIVE setNodeSelection(_, _, _)
RECURSIVE setNodeSelectionOf(_, _, _)
setNodeSelection(node, isSelected, map) ==
    setNodeSelectionOf(getNodeChildren(node), isSelected,
                       Put(map, getNodeKey(node), isSelected))
setNodeSelectionOf(nodes, isSelected, map) ==
    IF Len(nodes) = 0 THEN map
    ELSE setNodeSelectionOf(Tail(nodes), isSelected,
                            setNodeSelection(Head(nodes), isSelected, map))

RECURSIVE isCategoryAndAllSelected(_, _)
isCategoryAndAllSelected(node, sel) ==
    IF Len(getNodeChildren(node)) = 0 THEN Get(sel, getNodeKey(node))
    ELSE /\ Get(sel, getNodeKey(node))
         /\ \A i \in 1..Len(getNodeChildren(node)) :
                isCategoryAndAllSelected(getNodeChildren(node)[i], sel)

\* A leaf check that also asks for the entries of the nodes above the leaves.
isLowestCountingParents(node, sel) == isCategoryAndAllSelected(node, sel)

RECURSIVE isLowestCategorySelected(_, _)
isLowestCategorySelected(node, sel) ==
    IF Len(getNodeChildren(node)) = 0 THEN Get(sel, getNodeKey(node))
    ELSE \A i \in 1..Len(getNodeChildren(node)) :
             isLowestCategorySelected(getNodeChildren(node)[i], sel)

\* (mutant) expandNodesWithMatches skipping the roots.
expandBelowRoots(nodes) ==
    {getNodeKey(n) : n \in {m \in NodesOf(nodes) \ Roots(nodes) : ~IsLeaf(m)}}

\* A forcing that stops at the roots.
expandRootsOnly(nodes) ==
    {getNodeKey(n) : n \in {m \in Roots(nodes) : ~IsLeaf(m)}}

\* expandNodesWithMatches: the keys of the nodes that have children.
RECURSIVE expandNodesWithMatches(_)
expandNodesWithMatches(nodes) ==
    IF Len(nodes) = 0 THEN {}
    ELSE (IF Len(getNodeChildren(Head(nodes))) > 0
          THEN {getNodeKey(Head(nodes))}
                   \cup expandNodesWithMatches(getNodeChildren(Head(nodes)))
          ELSE {})
         \cup expandNodesWithMatches(Tail(nodes))

(***************************************************************************)
(* Queued state updates.  Every update of one queue has the same shape.    *)
(***************************************************************************)
\* setSelection(map)
SetU(map) == [kind |-> "set", map |-> map, key |-> "", name |-> "", val |-> FALSE]
\* setSelection(prev => ...) of toggleSelection, not yet run
ToggleU(key, name) ==
    [kind |-> "toggle", map |-> EmptyMap, key |-> key, name |-> name, val |-> FALSE]
\* setSelection(prev => ({...prev, [key]: val}))
PutU(key, val) == [kind |-> "put", map |-> EmptyMap, key |-> key, name |-> "", val |-> val]

\* actualSetSelectedItems(names)
ItemsSetU(names) == [kind |-> "set", names |-> names, val |-> FALSE]
\* toggleSelection's updater: add the name if absent, or filter it out
ItemsToggleU(name, newState) == [kind |-> "toggle", names |-> <<name>>, val |-> newState]
\* the bulk updater of toggleLowestCategorySelection / toggleAllCategorySelection
ItemsBulkU(names, newState) == [kind |-> "bulk", names |-> names, val |-> newState]

\* setFilteredData / setIsSearching / setShouldResetTree of the wrapper
HostU(kind, tree, flag) == [kind |-> kind, tree |-> tree, flag |-> flag]

\* setExpanded updaters: the seeding effect, the search effect, toggleExpand
ExpU(kind, map, keys) == [kind |-> kind, map |-> map, keys |-> keys]

\* (mutant) the bulk updater without its removal branch.
RECURSIVE BulkApplyAddOnly(_, _, _)
BulkApplyAddOnly(names, newState, arr) ==
    IF Len(names) = 0 \/ ~newState THEN arr
    ELSE BulkApplyAddOnly(Tail(names), newState,
             IF Includes(arr, Head(names)) THEN arr ELSE Append(arr, Head(names)))

\* A bulk add that moves a name already present to the end.
RECURSIVE BulkApplyAppending(_, _, _)
RECURSIVE BulkApplyReappend(_, _, _)
\* A bulk updater that pushes every name without looking for it first.
BulkApplyAppending(names, newState, arr) ==
    IF Len(names) = 0 THEN arr
    ELSE BulkApplyAppending(Tail(names), newState,
             IF newState THEN Append(arr, Head(names))
             ELSE Without(arr, Head(names)))

BulkApplyReappend(names, newState, arr) ==
    IF Len(names) = 0 THEN arr
    ELSE BulkApplyReappend(Tail(names), newState,
             IF newState THEN Append(Without(arr, Head(names)), Head(names))
             ELSE Without(arr, Head(names)))

\* The bulk updater's loop over the affected names.
RECURSIVE BulkApply(_, _, _)
BulkApply(names, newState, arr) ==
    IF Len(names) = 0 THEN arr
    ELSE BulkApply(Tail(names), newState,
             IF newState
             THEN IF Includes(arr, Head(names)) THEN arr ELSE Append(arr, Head(names))
             ELSE Without(arr, Head(names)))

\* (mutant) toggleSelection's updater without its removal branch.
\* An array update whose single-name removal empties the array.
ApplyItemsEmptying(u, arr) ==
    IF u.kind = "set" THEN u.names
    ELSE IF u.kind = "toggle"
    THEN IF u.val
         THEN IF Includes(arr, u.names[1]) THEN arr ELSE Append(arr, u.names[1])
         ELSE <<>>
    ELSE BulkApply(u.names, u.val, arr)

ApplyItemsAddOnly(u, arr) ==
    IF u.kind = "set" THEN u.names
    ELSE IF u.kind = "toggle"
    THEN IF u.val /\ ~Includes(arr, u.names[1]) THEN Append(arr, u.names[1]) ELSE arr
    ELSE BulkApply(u.names, u.val, arr)

\* One update of the host's array applied to its previous value.
ApplyItems(u, arr) ==
    IF u.kind = "set" THEN u.names
    ELSE IF u.kind = "toggle"
    THEN IF u.val
         THEN IF Includes(arr, u.names[1]) THEN arr ELSE Append(arr, u.names[1])
         ELSE Without(arr, u.names[1])
    ELSE BulkApply(u.names, u.val, arr)

\* Whether the update returns a new array object (prevItems itself is
\* returned only by toggleSelection's add of a name already present).
NewIdentity(u, arr) == ~(u.kind = "toggle" /\ u.val /\ Includes(arr, u.names[1]))

VARIABLES
    nodeType,           \* prop nodeType
    initiallyExpanded,  \* prop initiallyExpanded
    hasSetter,          \* whether actualSetSelectedItems is supplied
    hasArray,           \* whether the host passes the selected-names array
    churn,              \* whether the host hands over a new tree array per render
    generic,            \* whether items is passed as selectedItems / setSelectedItems
    specificItems,      \* the nodeType-specific array passed beside the generic props
    burst,              \* how many operations a sender issues between two renders
    data,               \* prop data: the wrapper's filteredData
    isSearching,        \* prop isSearching
    shouldReset,        \* prop shouldReset
    hostQ,              \* queued updates of the wrapper's state
    acks,               \* onResetComplete calls since the last reset request
    currentStep,        \* App's currentStep
    parked,             \* App's array of the data type whose step is not shown
    items,              \* actualSelectedItems: App's array for this data type
    itemsQ,             \* queued updates of that array
    selection,          \* useState selection, as of the last render
    selQ,               \* queued setSelection calls
    expanded,           \* useState expanded, as of the last render
    expQ,               \* queued setExpanded calls
    isAllSelected,      \* useState isAllSelected, as of the last render
    allQ,               \* queued setIsAllSelected calls
    changed,            \* effect dependencies that changed in the last render
    pc,                 \* "idle", or "effects": a render committed, effects due
    inflight,           \* handler invocations since the last settled point
    hist                \* the last two operations issued, newest last

props == <<nodeType, initiallyExpanded, hasSetter, hasArray, churn, generic, specificItems,
          burst>>
appVars == <<currentStep, parked>>
hostVars == <<data, isSearching, shouldReset, hostQ, acks>>
itemVars == <<items, itemsQ>>
selVars == <<selection, selQ, isAllSelected, allQ>>
expVars == <<expanded, expQ>>
vars == <<props, appVars, hostVars, itemVars, selVars, expVars, changed, pc, inflight, hist>>

FullTree == IF nodeType = "category" THEN CatFull ELSE GeoFull

\* actualSelectedItems: selectedItems when it has an element, else the
\* nodeType-specific array.
actualSelectedItems == IF generic /\ items = <<>> THEN specificItems ELSE items

\* No update is queued and no effect is due.
Settled ==
    /\ pc = "idle"
    /\ hostQ = <<>> /\ itemsQ = <<>> /\ selQ = <<>> /\ expQ = <<>> /\ allQ = <<>>

\* The same entries, reading an absent entry as false.
SameEntries(m1, m2) ==
    \A k \in DOMAIN m1 \cup DOMAIN m2 : Get(m1, k) = Get(m2, k)

\* The expansion queue applied to the map of the last render.
RECURSIVE RunExp(_, _)
RunExp(q, map) ==
    IF Len(q) = 0 THEN map
    ELSE LET u == Head(q) IN
         IF u.kind = "seed" THEN RunExp(Tail(q), u.map)
         ELSE IF u.kind = "search"
         THEN RunExp(Tail(q), [k \in DOMAIN map \cup u.keys |->
                                  IF k \in u.keys THEN TRUE ELSE map[k]])
         ELSE LET k == CHOOSE x \in u.keys : TRUE
              IN RunExp(Tail(q), Put(map, k, ~Get(map, k)))

\* When the host passes no array, the destructuring default `= []` is a new
\* array on every render; a host may likewise hand over a new tree array on
\* every render.  The inbound sync effect is then due after every render and
\* the engine never stops re-rendering.
Looping == ~hasArray \/ churn

\* Steady: no update is pending, or the engine is looping and a further
\* render shows nothing new.
Steady ==
    \/ Settled
    \/ /\ Looping
       /\ pc = "idle"
       /\ hostQ = <<>> /\ itemsQ = <<>>
       /\ SameEntries(RunExp(expQ, expanded), expanded)
       /\ \A i \in 1..Len(selQ) : selQ[i].kind = "set"
       /\ selQ # <<>> /\ SameEntries(selQ[Len(selQ)].map, selection)
       /\ allQ # <<>> /\ allQ[Len(allQ)] = isAllSelected

(***************************************************************************)
(* Init: the wrapper has mounted the engine with its own initial state     *)
(* (filteredData = [], isSearching = false), every effect is due, and the  *)
(* wrapper's mount effect has queued the hierarchy.                        *)
(***************************************************************************)
InitTree(configs, setters, arrays, generics, n, tree) ==
    /\ burst = n
    /\ \E c \in configs : nodeType = c[1] /\ initiallyExpanded = c[2]
    /\ hasSetter \in setters
    /\ \E a \in arrays : hasArray = a[1] /\ items = a[2] /\ churn = a[3]
    /\ \E g \in generics : generic = g[1] /\ specificItems = g[2]
    /\ acks = 0
    /\ currentStep = nodeType
    /\ parked = <<>>
    /\ data = <<>>
    /\ isSearching = FALSE
    /\ shouldReset = FALSE
    /\ hostQ = <<HostU("data", tree, FALSE)>>
    /\ itemsQ = <<>>
    /\ selection = EmptyMap
    /\ selQ = <<>>
    /\ expanded = EmptyMap
    /\ expQ = <<>>
    /\ isAllSelected = FALSE
    /\ allQ = <<>>
    /\ changed = {"mount"}
    /\ pc = "effects"
    /\ inflight = 0
    /\ hist = <<>>

\* A mount with the wrapper's whole hierarchy as the tree.
InitBurst(configs, setters, arrays, generics, n) ==
    InitTree(configs, setters, arrays, generics, n, FullTree)

\* A mount whose senders issue MaxPending operations between two renders.
InitWith(configs, setters, arrays, generics) ==
    InitBurst(configs, setters, arrays, generics, MaxPending)

\* The nodeType-specific props alone, as the wrappers pass them.
Specific == {<<FALSE, <<>>>>}

\* The category step: the Category wrapper, with App's setter.
Init == InitWith({<<"category", TRUE>>}, {TRUE}, {<<TRUE, <<>>, FALSE>>},
             Specific)

\* A handler runs between renders.  React renders and runs the effects of a
\* handler's updates before the next event is handled; up to MaxPending
\* handlers may still run back to back before the engine has settled.
Fire ==
    /\ pc = "idle"
    /\ Steady \/ (0 < inflight /\ inflight < burst)
    /\ inflight' = IF Steady THEN 1 ELSE inflight + 1
    /\ UNCHANGED <<props, appVars, changed, pc>>

(***************************************************************************)
(* The engine's handlers.  Each reads selection / isAllSelected / data as  *)
(* of the last render and queues its updates.                              *)
(***************************************************************************)
\* toggleSelection(node).  The updater passed to setSelection computes the
\* new state from the queue's previous value and itself calls
\* actualSetSelectedItems.  React runs it at once when no update is queued
\* (eager state), and otherwise while rendering.
toggleSelectionUpdates(node) ==
    \E eager \in (IF selQ = <<>> THEN BOOLEAN ELSE {FALSE}) :
        IF eager
        THEN LET newState == ~Get(selection, getNodeKey(node)) IN
             /\ selQ' = Append(selQ, PutU(getNodeKey(node), newState))
             /\ itemsQ' = IF hasSetter
                           THEN Append(itemsQ, ItemsToggleU(getNodeName(node), newState))
                           ELSE itemsQ
        ELSE /\ selQ' = Append(selQ, ToggleU(getNodeKey(node), getNodeName(node)))
             /\ itemsQ' = itemsQ

toggleSelection(node) ==
    /\ Fire
    /\ toggleSelectionUpdates(node)
    /\ UNCHANGED <<hostVars, items, selection, isAllSelected, allQ, expVars>>

\* A select-all that adds the tree's names to what the array holds.
toggleSelectAllMerging ==
    LET newState == ~isAllSelected
        newMap == setNodeSelectionOf(data, newState, selection)
    IN /\ Fire
       /\ allQ' = Append(allQ, newState)
       /\ selQ' = Append(selQ, SetU(newMap))
       /\ itemsQ' = IF hasSetter
                     THEN Append(itemsQ,
                              IF newState THEN ItemsBulkU(collectNames(data), TRUE)
                              ELSE ItemsSetU(<<>>))
                     ELSE itemsQ
       /\ UNCHANGED <<hostVars, items, selection, isAllSelected, expVars>>

toggleSelectAll ==
    LET newState == ~isAllSelected
        newMap == setNodeSelectionOf(data, newState, selection)
    IN /\ Fire
       /\ allQ' = Append(allQ, newState)
       /\ selQ' = Append(selQ, SetU(newMap))
       /\ itemsQ' = IF hasSetter
                     THEN Append(itemsQ,
                              ItemsSetU(IF newState THEN collectNames(data) ELSE <<>>))
                     ELSE itemsQ
       /\ UNCHANGED <<hostVars, items, selection, isAllSelected, expVars>>

\* A write of the first node's entry only.
PutAllFirst(nodes, value, map) ==
    IF Len(nodes) = 0 THEN map ELSE Put(map, getNodeKey(Head(nodes)), value)

\* The map toggleLowestCategorySelection writes: only the leaves' entries.
RECURSIVE PutAll(_, _, _)
PutAll(nodes, value, map) ==
    IF Len(nodes) = 0 THEN map
    ELSE PutAll(Tail(nodes), value, Put(map, getNodeKey(Head(nodes)), value))

\* A toggleLowestCategorySelection that leaves a leaf alone.
toggleLowestInnerOnly(node) ==
    /\ Fire
    /\ IF Len(getNodeChildren(node)) = 0
       THEN UNCHANGED <<selQ, itemsQ>>
       ELSE LET newState == ~isLowestCategorySelected(node, selection)
                lowestNodes == selectLowest(node)
            IN /\ selQ' = Append(selQ, SetU(PutAll(lowestNodes, newState, selection)))
               /\ itemsQ' = IF hasSetter
                             THEN Append(itemsQ,
                                      ItemsBulkU(NamesOfNodes(lowestNodes), newState))
                             ELSE itemsQ
    /\ UNCHANGED <<hostVars, items, selection, isAllSelected, allQ, expVars>>

toggleLowestCategorySelection(node) ==
    /\ Fire
    /\ IF Len(getNodeChildren(node)) = 0
       THEN toggleSelectionUpdates(node)
       ELSE LET newState == ~isLowestCategorySelected(node, selection)
                lowestNodes == selectLowest(node)
            IN /\ selQ' = Append(selQ, SetU(PutAll(lowestNodes, newState, selection)))
               /\ itemsQ' = IF hasSetter
                             THEN Append(itemsQ,
                                      ItemsBulkU(NamesOfNodes(lowestNodes), newState))
                             ELSE itemsQ
    /\ UNCHANGED <<hostVars, items, selection, isAllSelected, allQ, expVars>>

\* A whole-subtree operation that collects the names from the wrapper's
\* hierarchy instead of the tree it was handed.
toggleAllFromHierarchy(node) ==
    LET full == CHOOSE n \in NodesOf(FullTree) : getNodeKey(n) = getNodeKey(node)
        newState == ~isCategoryAndAllSelected(node, selection)
        allNodes == collectAllNodes(full)
    IN /\ Fire
       /\ selQ' = Append(selQ, SetU(setNodeSelection(node, newState, selection)))
       /\ itemsQ' = IF hasSetter
                     THEN Append(itemsQ, ItemsBulkU(NamesOfNodes(allNodes), newState))
                     ELSE itemsQ
       /\ UNCHANGED <<hostVars, items, selection, isAllSelected, allQ, expVars>>

toggleAllCategorySelection(node) ==
    LET newState == ~isCategoryAndAllSelected(node, selection)
        allNodes == collectAllNodes(node)
    IN /\ Fire
       /\ selQ' = Append(selQ, SetU(setNodeSelection(node, newState, selection)))
       /\ itemsQ' = IF hasSetter
                     THEN Append(itemsQ, ItemsBulkU(NamesOfNodes(allNodes), newState))
                     ELSE itemsQ
       /\ UNCHANGED <<hostVars, items, selection, isAllSelected, allQ, expVars>>

\* A toggleExpand that expands, whatever the entry was.
toggleExpandOpen(node) ==
    /\ Fire
    /\ expQ' = Append(expQ, ExpU("search", EmptyMap, {getNodeKey(node)}))
    /\ UNCHANGED <<hostVars, itemVars, selVars, expanded>>

toggleExpand(node) ==
    /\ Fire
    /\ expQ' = Append(expQ, ExpU("flip", EmptyMap, {getNodeKey(node)}))
    /\ UNCHANGED <<hostVars, itemVars, selVars, expanded>>

(***************************************************************************)
(* The bridge: the listeners the engine registers on window.               *)
(***************************************************************************)
\* (mutant) handleSelectionChange clearing the map when no node has the name.
handleSelectionChangeOrClear(itemName, selected) ==
    IF findNodeByName(data, itemName) # <<>>
    THEN <<PutU(getNodeKey(findNodeByName(data, itemName)[1]), selected)>>
    ELSE <<SetU(EmptyMap)>>

\* (mutant) handleSelectionChange ignoring the event's selected flag.
handleSelectionChangeOn(itemName, selected) ==
    IF findNodeByName(data, itemName) # <<>>
    THEN <<PutU(getNodeKey(findNodeByName(data, itemName)[1]), TRUE)>>
    ELSE <<>>

\* handleSelectionChange's setSelection calls for an event naming itemName.
handleSelectionChange(itemName, selected) ==
    IF findNodeByName(data, itemName) # <<>>
    THEN <<PutU(getNodeKey(findNodeByName(data, itemName)[1]), selected)>>
    ELSE <<>>

\* A remove button that dispatches the event and leaves the array alone.
handleRemoveEventOnly(name) ==
    /\ hasSetter
    /\ Includes(items, name)
    /\ Fire
    /\ selQ' = selQ \o handleSelectionChange(name, FALSE)
    /\ UNCHANGED <<hostVars, itemVars, selection, isAllSelected, allQ, expVars>>

\* SelectionWizard's handleRemoveCategory / handleRemoveGeography: the remove
\* button of an entry of the summary list.
handleRemove(name) ==
    /\ hasSetter
    /\ Includes(items, name)
    /\ Fire
    /\ itemsQ' = Append(itemsQ, ItemsToggleU(name, FALSE))
    /\ selQ' = selQ \o handleSelectionChange(name, FALSE)
    /\ UNCHANGED <<hostVars, items, selection, isAllSelected, allQ, expVars>>

\* The section's Clear button: the array is replaced by [] and the clear-all
\* event is dispatched, which the engine's handleClearAll handles.
sectionClear ==
    /\ hasSetter
    /\ Fire
    /\ itemsQ' = Append(itemsQ, ItemsSetU(<<>>))
    /\ selQ' = Append(selQ, SetU(EmptyMap))
    /\ allQ' = Append(allQ, FALSE)
    /\ UNCHANGED <<hostVars, items, selection, isAllSelected, expVars>>

(***************************************************************************)
(* The search collaborator (SearchBar through the wrapper).                *)
(***************************************************************************)
\* A query of at least minSearchLength: the filtered tree, isSearching true.
searchResult(tree) ==
    /\ Fire
    /\ hostQ' = hostQ \o <<HostU("data", tree, FALSE), HostU("search", <<>>, TRUE)>>
    /\ UNCHANGED <<data, isSearching, shouldReset, acks, itemVars, selVars, expVars>>

\* The host passes another array as the data prop.
replaceTree(tree) ==
    /\ Fire
    /\ hostQ' = Append(hostQ, HostU("data", tree, FALSE))
    /\ UNCHANGED <<data, isSearching, shouldReset, acks, itemVars, selVars, expVars>>

\* A shorter query: a copy of the whole hierarchy, isSearching false.
searchOff ==
    /\ Fire
    /\ hostQ' = hostQ \o <<HostU("data", FullTree, FALSE), HostU("search", <<>>, FALSE)>>
    /\ UNCHANGED <<data, isSearching, shouldReset, acks, itemVars, selVars, expVars>>

\* The Geography wrapper's handleSearchStateChange(false, '', true): the
\* search was cleared, the tree is to be reset.
forceReset ==
    /\ Fire
    /\ hostQ' = hostQ \o <<HostU("search", <<>>, FALSE), HostU("reset", <<>>, TRUE),
                           HostU("data", FullTree, FALSE)>>
    /\ acks' = 0
    /\ UNCHANGED <<data, isSearching, shouldReset, itemVars, selVars, expVars>>

(***************************************************************************)
(* Render: React applies every queue in order.                             *)
(***************************************************************************)
\* A queue of which only the last update is applied.
RunSelLastOnly(q, map, out) ==
    IF Len(q) = 0 THEN [map |-> map, out |-> out]
    ELSE LET u == q[Len(q)] IN
         IF u.kind = "set" THEN [map |-> u.map, out |-> out]
         ELSE IF u.kind = "put" THEN [map |-> Put(map, u.key, u.val), out |-> out]
         ELSE [map |-> Put(map, u.key, ~Get(map, u.key)),
               out |-> IF hasSetter
                       THEN Append(out, ItemsToggleU(u.name, ~Get(map, u.key)))
                       ELSE out]

\* The selection queue; out collects the array updates that the updaters of
\* toggleSelection issue while they run.
RECURSIVE RunSel(_, _, _)
RunSel(q, map, out) ==
    IF Len(q) = 0 THEN [map |-> map, out |-> out]
    ELSE LET u == Head(q) IN
         IF u.kind = "set" THEN RunSel(Tail(q), u.map, out)
         ELSE IF u.kind = "put" THEN RunSel(Tail(q), Put(map, u.key, u.val), out)
         ELSE RunSel(Tail(q), Put(map, u.key, ~Get(map, u.key)),
                     IF hasSetter
                     THEN Append(out, ItemsToggleU(u.name, ~Get(map, u.key)))
                     ELSE out)

RECURSIVE RunItems(_, _, _)
RunItems(q, arr, ch) ==
    IF Len(q) = 0 THEN [arr |-> arr, changed |-> ch]
    ELSE RunItems(Tail(q), ApplyItems(Head(q), arr), ch \/ NewIdentity(Head(q), arr))

RECURSIVE RunHost(_, _)
RunHost(q, h) ==
    IF Len(q) = 0 THEN h
    ELSE LET u == Head(q) IN
         IF u.kind = "data"
         THEN RunHost(Tail(q), [h EXCEPT !.data = u.tree, !.ch = @ \cup {"data"}])
         ELSE IF u.kind = "search"
         THEN RunHost(Tail(q), [h EXCEPT !.isSearching = u.flag])
         ELSE RunHost(Tail(q), [h EXCEPT !.shouldReset = u.flag])

Render ==
    /\ pc = "idle"
    /\ ~Settled
    /\ LET s == RunSel(selQ, selection, <<>>)
           it == RunItems(itemsQ \o s.out, items, FALSE)
           h == RunHost(hostQ, [data |-> data, isSearching |-> isSearching,
                                shouldReset |-> shouldReset, ch |-> {}])
           ch == h.ch \cup (IF churn THEN {"data"} ELSE {})
                      \cup (IF h.isSearching # isSearching THEN {"isSearching"} ELSE {})
                      \cup (IF h.shouldReset # shouldReset THEN {"shouldReset"} ELSE {})
                      \cup (IF it.changed \/ ~hasArray THEN {"items"} ELSE {})
                      \cup (IF expQ # <<>> THEN {"expanded"} ELSE {})
       IN /\ selection' = s.map
          /\ items' = it.arr
          /\ data' = h.data
          /\ isSearching' = h.isSearching
          /\ shouldReset' = h.shouldReset
          /\ expanded' = RunExp(expQ, expanded)
          /\ isAllSelected' = IF allQ = <<>> THEN isAllSelected ELSE allQ[Len(allQ)]
          /\ changed' = ch
          /\ pc' = IF ch = {} THEN "idle" ELSE "effects"
    /\ hostQ' = <<>> /\ itemsQ' = <<>> /\ selQ' = <<>> /\ expQ' = <<>> /\ allQ' = <<>>
    /\ UNCHANGED <<props, appVars, acks, inflight, hist>>

(***************************************************************************)
(* Effects: the useEffect bodies whose dependencies changed, in the order  *)
(* the component declares them.                                            *)
(***************************************************************************)
Due(deps) == changed \cap (deps \cup {"mount"}) # {}

\* (mutant) the seeding effect expanding every root.
RECURSIVE seedExpandedOpen(_, _, _)
seedExpandedOpen(roots, value, map) ==
    IF Len(roots) = 0 THEN map
    ELSE seedExpandedOpen(Tail(roots), value, Put(map, getNodeKey(Head(roots)), TRUE))

\* (mutant) an acknowledgment callback that leaves the signal set.
resetCompleteIgnored(q) == q

\* onResetComplete as the Geography wrapper passes it:
\* () => setShouldResetTree(false)
onResetComplete(q) == Append(q, HostU("reset", <<>>, FALSE))

\* A seeding that gives every node, at every depth, an entry.
RECURSIVE seedExpandedDeep(_, _, _)
seedExpandedDeep(roots, value, map) ==
    IF Len(roots) = 0 THEN map
    ELSE seedExpandedDeep(Tail(roots), value,
             seedExpandedDeep(getNodeChildren(Head(roots)), value,
                              Put(map, getNodeKey(Head(roots)), value)))

\* The expansion seeding effect's new map: the roots, at initiallyExpanded.
RECURSIVE seedExpanded(_, _, _)
seedExpanded(roots, value, map) ==
    IF Len(roots) = 0 THEN map
    ELSE seedExpanded(Tail(roots), value, Put(map, getNodeKey(Head(roots)), value))

Effects ==
    /\ pc = "effects"
    /\ LET seed == /\ Due({"data", "shouldReset", "expanded"})
                   /\ (shouldReset \/ DOMAIN expanded = {})
           search == Due({"isSearching", "data"}) /\ isSearching
           sync == Due({"items", "data"})
           e1 == IF seed
                 THEN Append(expQ, ExpU("seed",
                          seedExpanded(data, initiallyExpanded, EmptyMap), {}))
                 ELSE expQ
       IN /\ expQ' = IF search
                     THEN Append(e1, ExpU("search", EmptyMap, expandNodesWithMatches(data)))
                     ELSE e1
          /\ hostQ' = IF seed /\ shouldReset THEN onResetComplete(hostQ) ELSE hostQ
          /\ acks' = IF seed /\ shouldReset /\ acks < MaxAcks THEN acks + 1 ELSE acks
          /\ selQ' = IF sync
                     THEN Append(selQ, SetU(markSelectedNodes(data, actualSelectedItems,
                                                             EmptyMap)))
                     ELSE selQ
          /\ allQ' = IF sync
                     THEN Append(allQ, isAllCurrentlySelected(data, actualSelectedItems))
                     ELSE allQ
    /\ pc' = "idle"
    /\ changed' = {}
    /\ UNCHANGED <<props, appVars, data, isSearching, shouldReset, items, itemsQ, selection,
                   expanded, isAllSelected, inflight, hist>>

\* The external dispatch of the single-item bridge event of this data type
\* (window.dispatchEvent by a sender outside the wizard).
bridgeEvent(itemName, selected) ==
    /\ Fire
    /\ selQ' = selQ \o handleSelectionChange(itemName, selected)
    /\ UNCHANGED <<hostVars, itemVars, selection, isAllSelected, allQ, expVars>>

\* A handleClearAll that drops the Expansion Map as well.
bridgeClearAllCollapsing ==
    /\ Fire
    /\ selQ' = Append(selQ, SetU(EmptyMap))
    /\ allQ' = Append(allQ, FALSE)
    /\ expQ' = Append(expQ, ExpU("seed", EmptyMap, {}))
    /\ UNCHANGED <<hostVars, itemVars, selection, isAllSelected, expanded>>

\* A handleClearAll that empties the host's array as well.
bridgeClearAllWithArray ==
    /\ Fire
    /\ selQ' = Append(selQ, SetU(EmptyMap))
    /\ allQ' = Append(allQ, FALSE)
    /\ itemsQ' = Append(itemsQ, ItemsSetU(<<>>))
    /\ UNCHANGED <<hostVars, items, selection, isAllSelected, expVars>>

\* The external dispatch of the clear-all bridge event: handleClearAll.
bridgeClearAll ==
    /\ Fire
    /\ selQ' = Append(selQ, SetU(EmptyMap))
    /\ allQ' = Append(allQ, FALSE)
    /\ UNCHANGED <<hostVars, itemVars, selection, isAllSelected, expVars>>

(***************************************************************************)
(* hist: the operations issued, as the properties below refer to them.     *)
(***************************************************************************)
\* The record of an operation: what it was, on which node, and the selection
\* state it was issued in.  An operation issued before the previous one has
\* settled is recorded as "stale".
Op(name, key, nm) ==
    IF Steady
    THEN [op |-> name, key |-> key, name |-> nm, sel |-> selection, items |-> items,
          all |-> isAllSelected]
    ELSE [op |-> "stale", key |-> "", name |-> "", sel |-> EmptyMap, items |-> <<>>,
          all |-> FALSE]

\* The record of an operation and of the Expansion Map it was issued with.
\* An operation issued before the previous one has settled is recorded as
\* "stale".
OpExp(name, key) ==
    [op |-> IF Steady THEN name ELSE "stale", key |-> key, name |-> "",
     sel |-> EmptyMap, items |-> <<>>, all |-> FALSE, exp |-> expanded]

\* The record of an operation whose starting state no property refers to.
Plain(name) ==
    [op |-> name, key |-> "", name |-> "", sel |-> EmptyMap, items |-> <<>>, all |-> FALSE]

\* The record of a search: whether the engine was already searching.
SearchOp ==
    [op |-> "search", key |-> "", name |-> IF isSearching THEN "refine" ELSE "start",
     sel |-> EmptyMap, items |-> <<>>, all |-> FALSE]

SelOps == {"toggle", "lowest", "whole", "selectAll"}

\* hist keeps the operation before the last one when both are selection
\* operations on the same node, issued one after the other from settled states.
Record(o) ==
    hist' = IF /\ Len(hist) > 0
               /\ o.op \in SelOps
               /\ hist[Len(hist)].op \in SelOps
               /\ hist[Len(hist)].key = o.key
            THEN <<hist[Len(hist)], o>>
            ELSE <<o>>

Last == hist[Len(hist)]

(***************************************************************************)
(* The wizard's category step: the engine's selection operations, the      *)
(* summary panel, and the search collaborator replacing the tree.          *)
(***************************************************************************)
Next ==
    \/ \E n \in NodesOf(data) :
           toggleSelection(n) /\ Record(Op("toggle", getNodeKey(n), getNodeName(n)))
    \/ \E n \in NodesOf(data) :
           toggleLowestCategorySelection(n)
               /\ Record(Op("lowest", getNodeKey(n), getNodeName(n)))
    \/ \E n \in NodesOf(data) :
           toggleAllCategorySelection(n)
               /\ Record(Op("whole", getNodeKey(n), getNodeName(n)))
    \/ toggleSelectAll /\ Record(Op("selectAll", "", ""))
    \/ \E i \in 1..Len(items) : handleRemove(items[i]) /\ Record(Plain("remove"))
    \/ sectionClear /\ Record(Plain("clear"))
    \/ \E t \in TreesOf(nodeType) : searchResult(t) /\ Record(SearchOp)
    \/ searchOff /\ Record(Plain("searchOff"))
    \/ Render
    \/ Effects

Spec == Init /\ [][Next]_vars

(***************************************************************************)
(* The bridge: the same step with the bridge events also dispatched from   *)
(* outside the wizard (the channel is process-wide).                       *)
(***************************************************************************)
\* Names an event may carry: the hierarchy's, and one no node has.
EventNames == {collectNames(FullTree)[i] : i \in 1..Len(collectNames(FullTree))} \cup {"Z"}

\* renderTree draws a checkbox for every node but the roots.
Checkboxes(tree) == NodesOf(tree) \ Roots(tree)

NextBridge ==
    \/ \E n \in Checkboxes(data) : toggleSelection(n) /\ Record(Plain("toggle"))
    \/ \E nm \in EventNames, b \in BOOLEAN :
           bridgeEvent(nm, b) /\ Record(Op(IF b THEN "bridgeOn" ELSE "bridgeOff", "", nm))
    \/ bridgeClearAll /\ Record(Op("bridgeClear", "", ""))
    \/ \E t \in TreesOf(nodeType) : searchResult(t) /\ Record(SearchOp)
    \/ searchOff /\ Record(Plain("searchOff"))
    \/ Render
    \/ Effects

SpecBridge == Init /\ [][NextBridge]_vars

(***************************************************************************)
(* Expansion: both wrappers, with either expansion default, under          *)
(* toggleExpand and the search collaborator.                               *)
(***************************************************************************)
InitExp == InitWith({"category", "geography"} \X BOOLEAN, {TRUE}, {<<TRUE, <<>>, FALSE>>},
             Specific)

NextExp ==
    \/ \E n \in NodesOf(data) : toggleExpand(n) /\ Record(Plain("expand"))
    \/ \E t \in TreesOf(nodeType) : searchResult(t) /\ Record(SearchOp)
    \/ searchOff /\ Record(Plain("searchOff"))
    \/ Render
    \/ Effects

SpecExp == InitExp /\ [][NextExp]_vars

(***************************************************************************)
(* The event channel is process-wide: an engine of either data type, with  *)
(* events of both data types dispatched on window.                         *)
(***************************************************************************)
\* (mutant) an engine listening for the category clear-all event whatever
\* its data type.
ClearAllEventOfCategory(type) == "categoryClearAll"

\* eventName / clearAllEventName of the bridge effect.
SelectionEvent(type) ==
    IF type = "category" THEN "categorySelectionChanged" ELSE "geographySelectionChanged"

ClearAllEvent(type) ==
    IF type = "category" THEN "categoryClearAll" ELSE "geographyClearAll"

Events == {SelectionEvent(t) : t \in {"category", "geography"}}
              \cup {ClearAllEvent(t) : t \in {"category", "geography"}}

\* window.dispatchEvent(ev): the engine's listeners for ev run, if it
\* registered any.
dispatchEvent(ev, itemName, selected) ==
    /\ Fire
    /\ selQ' = selQ \o (IF ev = SelectionEvent(nodeType)
                        THEN handleSelectionChange(itemName, selected)
                        ELSE IF ev = ClearAllEvent(nodeType) THEN <<SetU(EmptyMap)>>
                        ELSE <<>>)
    /\ allQ' = IF ev = ClearAllEvent(nodeType) THEN Append(allQ, FALSE) ELSE allQ
    /\ UNCHANGED <<hostVars, itemVars, selection, isAllSelected, expVars>>

\* The events addressed to the engine's own data type.
InitEvents ==
    InitWith({<<"category", TRUE>>, <<"geography", FALSE>>}, {TRUE}, {<<TRUE, <<>>, FALSE>>},
             Specific)

NextEvents ==
    \/ \E n \in Checkboxes(data) : toggleSelection(n) /\ Record(Plain("toggle"))
    \/ \E ev \in Events, nm \in EventNames, b \in BOOLEAN :
           dispatchEvent(ev, nm, b)
               /\ Record(Op(IF ev \in {"categorySelectionChanged", "categoryClearAll"}
                            THEN "categoryEvent" ELSE "geographyEvent", "", nm))
    \/ Render
    \/ Effects

SpecEvents == InitEvents /\ [][NextEvents]_vars

(***************************************************************************)
(* Forced reset: the Geography wrapper, whose tree array is either kept    *)
(* between renders or handed over anew on every render.                    *)
(***************************************************************************)
InitReset ==
    InitWith({<<"geography", FALSE>>}, {TRUE},
             {<<TRUE, <<>>, FALSE>>, <<TRUE, <<>>, TRUE>>},
             Specific)

NextReset ==
    \/ \E n \in NodesOf(data) : toggleExpand(n) /\ Record(Plain("expand"))
    \/ \E t \in TreesOf(nodeType) : searchResult(t) /\ Record(SearchOp)
    \/ searchOff /\ Record(Plain("searchOff"))
    \/ forceReset /\ Record(Plain("reset"))
    \/ Render
    \/ Effects

SpecReset == InitReset /\ [][NextReset]_vars

(***************************************************************************)
(* The wizard: App shows the Category step or the Geography step, keeps    *)
(* both arrays, and SelectionWizard's panel is shown beside either step.   *)
(***************************************************************************)
\* (mutant) a Next button that is never disabled.
NextNeverDisabled == FALSE

\* The Next button's disabled={selectedCategories.length === 0}, as rendered
\* on the category step.
NextDisabled == items = <<>>

\* (mutant) a step change that drops the array of the step left.
ShowStepLosing(step) ==
    /\ currentStep' = step
    /\ nodeType' = step
    /\ initiallyExpanded' = (step = "category")
    /\ items' = parked
    /\ parked' = <<>>
    /\ data' = <<>>
    /\ isSearching' = FALSE
    /\ shouldReset' = FALSE
    /\ hostQ' = <<HostU("data", IF step = "category" THEN CatFull ELSE GeoFull, FALSE)>>
    /\ selection' = EmptyMap
    /\ expanded' = EmptyMap
    /\ isAllSelected' = FALSE
    /\ itemsQ' = <<>> /\ selQ' = <<>> /\ expQ' = <<>> /\ allQ' = <<>>
    /\ changed' = {"mount"}
    /\ pc' = "effects"
    /\ inflight' = 1
    /\ UNCHANGED <<hasSetter, hasArray, churn, generic, specificItems, burst, acks>>

\* App renders the other step: the shown wrapper and its engine unmount, the
\* other wrapper mounts with its own initial state, and the engine reads the
\* array of its data type.
ShowStep(step) ==
    /\ currentStep' = step
    /\ nodeType' = step
    /\ initiallyExpanded' = (step = "category")
    /\ items' = parked
    /\ parked' = items
    /\ data' = <<>>
    /\ isSearching' = FALSE
    /\ shouldReset' = FALSE
    /\ hostQ' = <<HostU("data", IF step = "category" THEN CatFull ELSE GeoFull, FALSE)>>
    /\ selection' = EmptyMap
    /\ expanded' = EmptyMap
    /\ isAllSelected' = FALSE
    /\ itemsQ' = <<>> /\ selQ' = <<>> /\ expQ' = <<>> /\ allQ' = <<>>
    /\ changed' = {"mount"}
    /\ pc' = "effects"
    /\ inflight' = 1
    /\ UNCHANGED <<hasSetter, hasArray, churn, generic, specificItems, burst, acks>>

\* The Next button: App's handleNextStep.
handleNextStep ==
    /\ Settled
    /\ currentStep = "category"
    /\ ~NextDisabled
    /\ ShowStep("geography")

\* The Back button, rendered on the geography step: App's handlePreviousStep.
handlePreviousStep ==
    /\ Settled
    /\ currentStep = "geography"
    /\ ShowStep("category")

\* The Clear button of the section whose step is not shown: the array is
\* replaced by []; no engine of that data type is mounted to hear the event.
clearOtherSection ==
    /\ Settled
    /\ hasSetter
    /\ parked' = <<>>
    /\ inflight' = 1
    /\ UNCHANGED <<props, currentStep, hostVars, itemVars, selVars, expVars, changed, pc>>

\* A Clear All that empties the mounted step's section only.
wizardClearMountedOnly ==
    /\ hasSetter
    /\ pc = "idle"
    /\ Steady
    /\ inflight' = 1
    /\ IF items # <<>>
       THEN /\ itemsQ' = Append(itemsQ, ItemsSetU(<<>>))
            /\ selQ' = Append(selQ, SetU(EmptyMap))
            /\ allQ' = Append(allQ, FALSE)
       ELSE UNCHANGED <<itemsQ, selQ, allQ>>
    /\ UNCHANGED <<props, appVars, hostVars, items, selection, isAllSelected,
                   expVars, changed, pc>>

\* SelectionWizard's handleClearAll, both mutators supplied: each array that
\* is not empty is set to [] and the clear-all event of its type is
\* dispatched; the event of the step that is not mounted has no listener.
wizardHandleClearAll ==
    /\ hasSetter
    /\ pc = "idle"
    /\ Steady
    /\ inflight' = 1
    /\ parked' = <<>>
    /\ IF items # <<>>
       THEN /\ itemsQ' = Append(itemsQ, ItemsSetU(<<>>))
            /\ selQ' = Append(selQ, SetU(EmptyMap))
            /\ allQ' = Append(allQ, FALSE)
       ELSE UNCHANGED <<itemsQ, selQ, allQ>>
    /\ UNCHANGED <<props, currentStep, hostVars, items, selection, isAllSelected,
                   expVars, changed, pc>>

InitWizard == InitWith({<<"category", TRUE>>}, {TRUE}, {<<TRUE, <<>>, FALSE>>},
             Specific)

NextWizard ==
    \/ \E n \in Checkboxes(data) : toggleSelection(n) /\ Record(Plain("toggle"))
    \/ \E i \in 1..Len(items) : handleRemove(items[i]) /\ Record(Plain("remove"))
    \/ sectionClear /\ Record(Plain("clear"))
    \/ clearOtherSection /\ Record(Plain("clearOther"))
    \/ wizardHandleClearAll
           /\ Record([OpExp("clearAll", "") EXCEPT !.sel = selection, !.items = items,
                                                  !.name = IF parked = <<>> THEN "" ELSE parked[1]])
    \/ handleNextStep /\ Record(Plain("next"))
    \/ handlePreviousStep /\ Record(Plain("back"))
    \/ Render
    \/ Effects

SpecWizard == InitWizard /\ [][NextWizard]_vars

(***************************************************************************)
(* Generic props: a host that passes its array and mutator as              *)
(* selectedItems / setSelectedItems, and beside them a nodeType-specific   *)
(* array (empty, or holding A1).                                           *)
(***************************************************************************)
InitGeneric ==
    InitWith({<<"category", TRUE>>}, {TRUE}, {<<TRUE, <<>>, FALSE>>},
             {<<TRUE, <<>>>>, <<TRUE, <<"A1">>>>})

NextGeneric ==
    \/ \E n \in Checkboxes(data) :
           toggleSelection(n) /\ Record(Op("toggle", getNodeKey(n), getNodeName(n)))
    \/ toggleSelectAll /\ Record(Op("selectAll", "", ""))
    \/ Render
    \/ Effects

SpecGeneric == InitGeneric /\ [][NextGeneric]_vars

(***************************************************************************)
(* Back-to-back operations: the engine's four selection operations and the *)
(* two bridge events, up to MaxBurst of them between two renders.  A       *)
(* second operation lands either before the first one's render or between  *)
(* that render's inbound sync and the render the sync asks for.            *)
(***************************************************************************)
InitBatch ==
    InitBurst({<<"category", TRUE>>}, {TRUE}, {<<TRUE, <<>>, FALSE>>}, Specific, MaxBurst)

\* The record of an operation: the rendered state it read, whether the
\* engine was at rest when it was issued, and how many operations came before.
OpNow(name, key, nm) ==
    [op |-> name, key |-> key, name |-> nm, sel |-> selection, items |-> items,
     all |-> isAllSelected, rest |-> Steady,
     n |-> IF hist = <<>> THEN 1 ELSE hist[Len(hist)].n + 1]

\* hist holds the last two operations.
RecordPair(o) == hist' = IF hist = <<>> THEN <<o>> ELSE <<hist[Len(hist)], o>>

\* A sender issues up to MaxOps operations in all.
MayIssue == IF hist = <<>> THEN TRUE ELSE hist[Len(hist)].n < MaxOps

NextBatch ==
    \/ \E n \in Checkboxes(data) :
           /\ MayIssue
           /\ toggleSelection(n)
           /\ RecordPair(OpNow("toggle", getNodeKey(n), getNodeName(n)))
    \/ \E n \in Roots(data) :
           /\ MayIssue
           /\ toggleLowestCategorySelection(n)
           /\ RecordPair(OpNow("lowest", getNodeKey(n), getNodeName(n)))
    \/ \E n \in Roots(data) :
           /\ MayIssue
           /\ toggleAllCategorySelection(n)
           /\ RecordPair(OpNow("whole", getNodeKey(n), getNodeName(n)))
    \/ MayIssue /\ toggleSelectAll /\ RecordPair(OpNow("selectAll", "", ""))
    \/ \E name \in EventNames :
           /\ MayIssue
           /\ bridgeEvent(name, FALSE)
           /\ RecordPair(OpNow("deselect", "", name))
    \/ MayIssue /\ bridgeClearAll /\ RecordPair(OpNow("clearAll", "", ""))
    \/ Render
    \/ Effects

SpecBatch == InitBatch /\ [][NextBatch]_vars

(***************************************************************************)
(* A tree with a repeated display name under the bridge events.            *)
(***************************************************************************)
InitTwins ==
    InitTree({<<"category", TRUE>>}, {TRUE}, {<<TRUE, <<>>, FALSE>>}, Specific,
             MaxPending, CatTwins)

TwinEventNames == {getNodeName(n) : n \in NodesOf(CatTwins)} \cup {"Z"}

NextTwins ==
    \/ \E n \in Checkboxes(data) :
           toggleSelection(n) /\ Record(Op("toggle", getNodeKey(n), getNodeName(n)))
    \/ \E nm \in TwinEventNames, b \in BOOLEAN :
           bridgeEvent(nm, b) /\ Record(Op(IF b THEN "bridgeOn" ELSE "bridgeOff", "", nm))
    \/ Render
    \/ Effects

SpecTwins == InitTwins /\ [][NextTwins]_vars

(***************************************************************************)
(* Tree replacement: the host swaps the data prop between the hierarchy    *)
(* and the hierarchy with a second root, while nodes are expanded and      *)
(* collapsed.                                                              *)
(***************************************************************************)
InitData ==
    InitTree({"category"} \X BOOLEAN, {TRUE}, {<<TRUE, <<>>, FALSE>>}, Specific,
             MaxPending, CatFull)

NextData ==
    \/ \E n \in NodesOf(data) :
           toggleExpand(n) /\ Record(OpExp("expand", getNodeKey(n)))
    \/ \E t \in {CatFull, CatWide} : replaceTree(t) /\ Record(OpExp("replace", ""))
    \/ Render
    \/ Effects

SpecData == InitData /\ [][NextData]_vars

(***************************************************************************)
(* The forced reset under either expansion default: a host that raises     *)
(* shouldReset as the Geography wrapper does, with initiallyExpanded true   *)
(* or false.                                                               *)
(***************************************************************************)
InitResetAny ==
    InitWith({"category", "geography"} \X BOOLEAN, {TRUE}, {<<TRUE, <<>>, FALSE>>},
             Specific)

NextResetAny ==
    \/ \E n \in NodesOf(data) : toggleExpand(n) /\ Record(OpExp("expand", getNodeKey(n)))
    \/ \E t \in TreesOf(nodeType) : searchResult(t) /\ Record(OpExp("search", ""))
    \/ searchOff /\ Record(OpExp("searchOff", ""))
    \/ forceReset /\ Record(OpExp("reset", ""))
    \/ Render
    \/ Effects

SpecResetAny == InitResetAny /\ [][NextResetAny]_vars

(***************************************************************************)
(* Selection and expansion together: the engine's selection operations,    *)
(* the bridge events and toggleExpand on one tree, up to MaxOps operations  *)
(* in all.                                                                 *)
(***************************************************************************)
InitMixed ==
    InitWith({"category"} \X BOOLEAN, {TRUE}, {<<TRUE, <<>>, FALSE>>}, Specific)

\* The record of an operation: the rendered state it read, the Expansion Map
\* included.
OpAll(name, key, nm) ==
    [op |-> name, key |-> key, name |-> nm, sel |-> selection, items |-> items,
     all |-> isAllSelected, exp |-> expanded, rest |-> Steady,
     n |-> IF hist = <<>> THEN 1 ELSE hist[Len(hist)].n + 1]

NextMixed ==
    \/ \E n \in Checkboxes(data) :
           /\ MayIssue
           /\ toggleSelection(n)
           /\ RecordPair(OpAll("toggle", getNodeKey(n), getNodeName(n)))
    \/ \E n \in Roots(data) :
           /\ MayIssue
           /\ toggleLowestCategorySelection(n)
           /\ RecordPair(OpAll("lowest", getNodeKey(n), getNodeName(n)))
    \/ \E n \in Roots(data) :
           /\ MayIssue
           /\ toggleAllCategorySelection(n)
           /\ RecordPair(OpAll("whole", getNodeKey(n), getNodeName(n)))
    \/ MayIssue /\ toggleSelectAll /\ RecordPair(OpAll("selectAll", "", ""))
    \/ \E name \in EventNames :
           /\ MayIssue
           /\ bridgeEvent(name, FALSE)
           /\ RecordPair(OpAll("deselect", "", name))
    \/ MayIssue /\ bridgeClearAll /\ RecordPair(OpAll("clearAll", "", ""))
    \/ \E n \in NodesOf(data) :
           /\ MayIssue
           /\ toggleExpand(n)
           /\ RecordPair(OpAll("expand", getNodeKey(n), getNodeName(n)))
    \/ Render
    \/ Effects

SpecMixed == InitMixed /\ [][NextMixed]_vars

(***************************************************************************)
(* The category step with the summary panel, every operation recorded      *)
(* with the selection it was issued in.                                    *)
(***************************************************************************)
NextPanel ==
    \/ \E n \in NodesOf(data) :
           toggleSelection(n) /\ Record(Op("toggle", getNodeKey(n), getNodeName(n)))
    \/ \E n \in NodesOf(data) :
           toggleLowestCategorySelection(n)
               /\ Record(Op("lowest", getNodeKey(n), getNodeName(n)))
    \/ \E n \in NodesOf(data) :
           toggleAllCategorySelection(n)
               /\ Record(Op("whole", getNodeKey(n), getNodeName(n)))
    \/ toggleSelectAll /\ Record(Op("selectAll", "", ""))
    \/ \E i \in 1..Len(items) :
           handleRemove(items[i]) /\ Record(Op("remove", "", items[i]))
    \/ sectionClear /\ Record(Op("clear", "", ""))
    \/ \E t \in TreesOf(nodeType) : searchResult(t) /\ Record(Op("search", "", ""))
    \/ searchOff /\ Record(Op("searchOff", "", ""))
    \/ Render
    \/ Effects

SpecPanel == Init /\ [][NextPanel]_vars

(***************************************************************************)
(* Settling: the engine mounted on the hierarchy or on the empty tree,     *)
(* with or without the array prop; the host replaces the tree and the user *)
(* toggles.  React always runs a pending render and the effects that are   *)
(* due after it, hence the weak fairness of Render and Effects; no handler *)
(* has to run.                                                             *)
(***************************************************************************)
InitSettle ==
    \E tree \in {CatFull, CatNone} :
        InitTree({"category"} \X BOOLEAN, {TRUE},
                 {<<TRUE, <<>>, FALSE>>, <<FALSE, <<>>, FALSE>>}, Specific,
                 MaxPending, tree)

NextSettle ==
    \/ \E n \in Checkboxes(data) : toggleSelection(n) /\ Record(Plain("toggle"))
    \/ toggleSelectAll /\ Record(Plain("selectAll"))
    \/ \E n \in Roots(data) : toggleExpand(n) /\ Record(Plain("expand"))
    \/ \E t \in {CatFull, CatFiltered, CatNone} :
           replaceTree(t) /\ Record(Plain("replace"))
    \/ Render
    \/ Effects

SpecSettle ==
    InitSettle /\ [][NextSettle]_vars /\ WF_vars(Render) /\ WF_vars(Effects)

(***************************************************************************)
(* The search bar's filterItems.  A query is modelled by the set of names  *)
(* that contain it: a node is kept when its name matches or a child is     *)
(* kept, and a kept node carries the kept children only, an empty array    *)
(* when none of its children is kept.                                      *)
(***************************************************************************)
RECURSIVE filterItems(_, _)
filterItems(nodes, query) ==
    IF Len(nodes) = 0 THEN <<>>
    ELSE LET item == Head(nodes)
             filteredChildren == filterItems(getNodeChildren(item), query)
             rest == filterItems(Tail(nodes), query)
         IN IF getNodeName(item) \in query \/ Len(filteredChildren) > 0
            THEN << IF isCategoryNode(item)
                    THEN [item EXCEPT !.categories = filteredChildren]
                    ELSE [item EXCEPT !.geographies = filteredChildren] >> \o rest
            ELSE rest

\* The queries typed: each matches one name of the hierarchy.
Queries == {{"A1"}, {"A2"}, {"A2a"}}

\* The category step with the search bar filtering the hierarchy.
NextSearch ==
    \/ \E n \in NodesOf(data) :
           toggleSelection(n) /\ Record(Op("toggle", getNodeKey(n), getNodeName(n)))
    \/ \E n \in NodesOf(data) :
           toggleLowestCategorySelection(n)
               /\ Record(Op("lowest", getNodeKey(n), getNodeName(n)))
    \/ \E n \in NodesOf(data) :
           toggleAllCategorySelection(n)
               /\ Record(Op("whole", getNodeKey(n), getNodeName(n)))
    \/ \E q \in Queries :
           searchResult(filterItems(FullTree, q)) /\ Record(Op("search", "", ""))
    \/ searchOff /\ Record(Op("searchOff", "", ""))
    \/ Render
    \/ Effects

SpecSearch == Init /\ [][NextSearch]_vars

(***************************************************************************)
(* Local mode: a host that supplies no mutator, and either still passes    *)
(* its array (empty, or holding A2) or passes no array at all, or passes   *)
(* its array and a new tree array on every render.                         *)
(***************************************************************************)
InitLocal ==
    InitWith({<<"category", TRUE>>}, {FALSE},
             {<<TRUE, <<>>, FALSE>>, <<TRUE, <<"A2">>, FALSE>>,
              <<FALSE, <<>>, FALSE>>, <<TRUE, <<"A2">>, TRUE>>},
             Specific)

NextLocal ==
    \/ \E n \in NodesOf(data) :
           toggleSelection(n) /\ Record(Op("toggle", getNodeKey(n), getNodeName(n)))
    \/ \E n \in NodesOf(data) :
           toggleLowestCategorySelection(n)
               /\ Record(Op("lowest", getNodeKey(n), getNodeName(n)))
    \/ \E n \in NodesOf(data) :
           toggleAllCategorySelection(n)
               /\ Record(Op("whole", getNodeKey(n), getNodeName(n)))
    \/ toggleSelectAll /\ Record(Op("selectAll", "", ""))
    \/ \E t \in TreesOf(nodeType) : searchResult(t) /\ Record(SearchOp)
    \/ searchOff /\ Record(Plain("searchOff"))
    \/ Render
    \/ Effects

SpecLocal == InitLocal /\ [][NextLocal]_vars

(***************************************************************************)
(* Properties.                                                             *)
(***************************************************************************)
NameSet(arr) == {arr[i] : i \in 1..Len(arr)}

NamesIn(nodes) == {getNodeName(n) : n \in nodes}

Count(arr, x) == Cardinality({i \in 1..Len(arr) : arr[i] = x})

\* The same elements, none duplicated or missing, in whatever order.
SameElements(a, b) ==
    \A x \in NameSet(a) \cup NameSet(b) : Count(a, x) = Count(b, x)

UniqueKeys(tree) ==
    \A m, n \in NodesOf(tree) : getNodeKey(m) = getNodeKey(n) => m = n

UniqueNames(tree) ==
    \A m, n \in NodesOf(tree) : getNodeName(m) = getNodeName(n) => m = n

\* A node's name is in the array exactly when its map entry is true.
Consistent(tree, sel, arr) ==
    \A n \in NodesOf(tree) : Includes(arr, getNodeName(n)) <=> Get(sel, getNodeKey(n))

\* The node of the current tree that an operation of hist was issued on.
NodeAt(key) == CHOOSE n \in NodesOf(data) : getNodeKey(n) = key

LeavesUnder(n) == {m \in Subtree(n) : IsLeaf(m)}

InnerUnder(n) == {m \in Subtree(n) : ~IsLeaf(m)}

\* The last two operations were op1 then op2, on the same node, each issued
\* from a settled state, and the second has settled.
Pair(op1, op2) ==
    Settled /\ Len(hist) = 2 /\ hist[1].op = op1 /\ hist[2].op = op2

\* The last operation was op and it has settled.
After(op) == Settled /\ Len(hist) > 0 /\ Last.op = op

\* A reading of the map in which a missing key counts as initiallyExpanded.
isExpandedByDefault(node) ==
    IF getNodeKey(node) \in DOMAIN expanded THEN expanded[getNodeKey(node)]
    ELSE initiallyExpanded

\* renderTree: isExpanded = expanded[nodeKey]
isExpanded(node) == Get(expanded, getNodeKey(node))

\* C1: with a mutator supplied and unique keys and names, at every settled
\* point a node's name is in the external array exactly when the node's
\* Selection Map entry is true, whatever sequence of toggles, lowest-level
\* and whole-subtree toggles, select-alls, summary removals and clears, and
\* tree replacements came before.
C1_ArrayMatchesMap ==
    (Settled /\ hasSetter /\ UniqueKeys(data) /\ UniqueNames(data))
        => Consistent(data, selection, items)

\* A summary removal has settled on a filtered tree while the array still
\* holds a name the tree hides and a name it shows.
C1_Witness ==
    /\ After("remove")
    /\ data = CatFiltered
    /\ Includes(items, "A1") /\ Includes(items, "A2a") /\ ~Includes(items, "A")

\* C2: whenever the inbound sync runs, for the tree and the external array of
\* that render, the Selection Map it sets has, for every node of the tree, a
\* true entry exactly when the array includes the node's name (an absent
\* entry reading as false).
C2_InboundSync ==
    [][(pc = "effects" /\ pc' = "idle" /\ Due({"items", "data"}))
          => /\ selQ' # <<>>
             /\ selQ'[Len(selQ')].kind = "set"
             /\ Consistent(data, selQ'[Len(selQ')].map, items)]_vars

\* The sync has just run after a search replaced the tree, with the array
\* holding a name of the filtered tree and a name the filtered tree hides.
C2_Witness ==
    /\ pc = "idle" /\ changed = {} /\ hostQ = <<>> /\ itemsQ = <<>>
    /\ selQ # <<>> /\ allQ # <<>>
    /\ Len(hist) > 0 /\ Last.op = "search"
    /\ data = CatFiltered
    /\ Includes(items, "A2a") /\ Includes(items, "A1")

\* C3: toggling the same node twice in a row from a settled state restores
\* the Selection Map and leaves the external array with the elements it had,
\* none duplicated and none missing.
C3_ToggleTwice ==
    Pair("toggle", "toggle")
        => /\ SameElements(items, hist[1].items)
           /\ SameEntries(selection, hist[1].sel)

\* A selected node was toggled off and on again; its name moved to the end of
\* the array.
C3_Witness ==
    /\ Pair("toggle", "toggle")
    /\ Includes(hist[1].items, hist[1].name)
    /\ Len(items) >= 2
    /\ items # hist[1].items

C5_LowestOn ==
    (/\ After("lowest")
     /\ \E n \in NodesOf(data) : getNodeKey(n) = Last.key
     /\ ~IsLeaf(NodeAt(Last.key))
     /\ \E m \in LeavesUnder(NodeAt(Last.key)) : ~Get(Last.sel, getNodeKey(m)))
        => /\ \A m \in LeavesUnder(NodeAt(Last.key)) :
                  Get(selection, getNodeKey(m)) /\ Includes(items, getNodeName(m))
           /\ NameSet(items) =
                  NameSet(Last.items) \cup NamesIn(LeavesUnder(NodeAt(Last.key)))
           /\ \A m \in NodesOf(data) :
                  ~IsLeaf(m) => Get(selection, getNodeKey(m)) = Get(Last.sel, getNodeKey(m))

\* toggleLowestLevel(A) on A{A1, A2{A2a}} with A2 selected and A not.
C5_Witness ==
    /\ After("lowest")
    /\ data = CatFull
    /\ Last.key = "1"
    /\ Includes(Last.items, "A2") /\ ~Includes(Last.items, "A")
    /\ ~Includes(Last.items, "A2a")
    /\ Includes(items, "A2a")

\* C6: from a settled state in which the node's subtree is not fully
\* selected, toggleWholeSubtree selects the node and every descendant and
\* isWholeSubtreeSelected(node) is then true; a second toggleWholeSubtree
\* deselects them all and the predicate is false.
C6_WholeSubtree ==
    /\ (/\ After("whole")
        /\ \E m \in Subtree(NodeAt(Last.key)) : ~Get(Last.sel, getNodeKey(m)))
           => /\ \A m \in Subtree(NodeAt(Last.key)) :
                     Get(selection, getNodeKey(m)) /\ Includes(items, getNodeName(m))
              /\ isCategoryAndAllSelected(NodeAt(Last.key), selection)
    /\ (/\ Pair("whole", "whole")
        /\ \E m \in Subtree(NodeAt(Last.key)) : ~Get(hist[1].sel, getNodeKey(m)))
           => /\ \A m \in Subtree(NodeAt(Last.key)) :
                     ~Get(selection, getNodeKey(m)) /\ ~Includes(items, getNodeName(m))
              /\ ~isCategoryAndAllSelected(NodeAt(Last.key), selection)

\* toggleWholeSubtree(A) twice on A{A1, A2{A2a}}, starting with A2 alone
\* selected.
C6_Witness ==
    /\ Pair("whole", "whole")
    /\ data = CatFull
    /\ Last.key = "1"
    /\ hist[1].items = <<"A2">>
    /\ Len(hist[2].items) = 4

\* C7: starting with nothing selected, toggleWholeSubtree on a node whose
\* subtree contains non-leaf descendants followed by toggleLowestLevel on the
\* same node leaves only the node and its non-leaf descendants selected; for
\* A{A1, A2{A2a}} the array is [A, A1, A2, A2a] and then [A, A2].
C7_WholeThenLowest ==
    /\ (After("whole") /\ Last.items = <<>> /\ data = CatFull /\ Last.key = "1")
           => items = <<"A", "A1", "A2", "A2a">>
    /\ (/\ Pair("whole", "lowest")
        /\ hist[1].items = <<>>
        /\ \E m \in InnerUnder(NodeAt(Last.key)) : m # NodeAt(Last.key))
           => /\ NameSet(items) = NamesIn(InnerUnder(NodeAt(Last.key)))
              /\ \A m \in NodesOf(data) :
                     Get(selection, getNodeKey(m)) <=> m \in InnerUnder(NodeAt(Last.key))
              /\ (data = CatFull /\ Last.key = "1") => items = <<"A", "A2">>

\* toggleWholeSubtree(A) then toggleLowestLevel(A) on A{A1, A2{A2a}} from the
\* empty selection.
C7_Witness ==
    /\ Pair("whole", "lowest")
    /\ hist[1].items = <<>>
    /\ data = CatFull
    /\ Last.key = "1"
    /\ Len(hist[2].items) = 4

\* C8: a single-item bridge event with selected = false, naming an item that
\* is in the tree but not in the external array, sets the item's Selection
\* Map entry to false and leaves the external array unchanged.
C8_BridgeDeselect ==
    (/\ After("bridgeOff")
     /\ Last.name \in NamesIn(NodesOf(data))
     /\ ~Includes(Last.items, Last.name))
        => /\ \A n \in NodesOf(data) :
                  getNodeName(n) = Last.name => ~Get(selection, getNodeKey(n))
           /\ items = Last.items

\* The event names A1, whose entry an earlier event had set to true without
\* touching the array, while the array holds other names.
C8_Witness ==
    /\ After("bridgeOff")
    /\ Last.name = "A1"
    /\ Get(Last.sel, "7")
    /\ ~Includes(Last.items, "A1")
    /\ Last.items # <<>>

\* C9: once the engine has mounted and settled, and before any interaction,
\* isExpanded(root) equals initiallyExpanded for every root node.
C9_InitialExpansion ==
    (Settled /\ hist = <<>>)
        => \A r \in Roots(data) : isExpanded(r) = initiallyExpanded

\* The Geography wrapper's tree mounted with initiallyExpanded = false.
C9_Witness ==
    /\ Settled /\ hist = <<>>
    /\ data = GeoFull
    /\ ~initiallyExpanded

\* C10: once isSearchActive has been set to true, isExpanded(root) is true
\* for every root node that has at least one child, whatever
\* initiallyExpanded is.
C10_SearchExpandsRoots ==
    (After("search") /\ isSearching)
        => \A r \in Roots(data) : ~IsLeaf(r) => isExpanded(r)

\* A search started on a tree whose roots were seeded collapsed.
C10_Witness ==
    /\ After("search") /\ Last.name = "start"
    /\ isSearching
    /\ ~initiallyExpanded
    /\ data = GeoFiltered

\* The last operation was op and a further render shows nothing new.
Shown(op) == Steady /\ Len(hist) > 0 /\ Last.op = op

\* C11, as stated: for an empty tree isAllSelected is false in every settled
\* state, with or without an external mutator supplied.
C11_EmptyTreeNotAllSelected ==
    (Settled /\ data = <<>>) => ~isAllSelected

\* What a selection operation does to the Selection Map: the entries it is
\* to set, and the value, from the state it was issued in.
Targets(o) ==
    IF o.op = "toggle" THEN {NodeAt(o.key)}
    ELSE IF o.op = "lowest" THEN LeavesUnder(NodeAt(o.key))
    ELSE IF o.op = "whole" THEN Subtree(NodeAt(o.key))
    ELSE NodesOf(data)

TurnsOn(o) ==
    IF o.op = "selectAll" THEN ~o.all
    ELSE \E m \in Targets(o) : ~Get(o.sel, getNodeKey(m))

\* The Selection Map shows the last operation's change, and the array is the
\* one the operation started with.
LocalOnly ==
    /\ \A m \in Targets(Last) : Get(selection, getNodeKey(m)) = TurnsOn(Last)
    /\ \A m \in NodesOf(data) \ Targets(Last) :
           Get(selection, getNodeKey(m)) = Get(Last.sel, getNodeKey(m))
    /\ items = Last.items

BridgeOps == {"bridgeOn", "bridgeOff"}

\* C13: a single-item bridge event naming an item that is not in the current
\* (possibly search-filtered) tree leaves the Selection Map, the Expansion
\* Map, the aggregate flag and the external array unchanged, and queues no
\* update.
C13_BridgeUnknownName ==
    [][(/\ Settled
        /\ Len(hist') > 0
        /\ hist'[Len(hist')].op \in BridgeOps
        /\ hist'[Len(hist')].name \notin NamesIn(NodesOf(data)))
          => /\ UNCHANGED <<selection, expanded, isAllSelected, items, data>>
             /\ Settled']_vars

\* A deselect event names A1 while a search hides A1, A1 is in the array and
\* a node of the filtered tree is selected.
C13_Witness ==
    /\ After("bridgeOff")
    /\ Last.name = "A1"
    /\ isSearching
    /\ data = CatFiltered
    /\ Includes(items, "A1")
    /\ Get(selection, "4")

\* The operation a step records is a bridge event addressed to the other
\* data type than the engine's.
ForeignEvent(o) ==
    \/ nodeType = "category" /\ o.op = "geographyEvent"
    \/ nodeType = "geography" /\ o.op = "categoryEvent"

\* C14: a bridge event addressed to one data type (single-item or clear-all)
\* changes no state of an engine of the other data type: Selection Map,
\* Expansion Map and aggregate flag stay, and no update is queued.
C14_OtherTypeIgnored ==
    [][(Settled /\ Len(hist') > 0 /\ ForeignEvent(hist'[Len(hist')]))
          => /\ UNCHANGED <<selection, expanded, isAllSelected, items>>
             /\ Settled']_vars

\* A category event reached a geography engine that has a selection.
C14_Witness ==
    /\ Settled /\ Len(hist) > 0 /\ ForeignEvent(Last)
    /\ nodeType = "geography"
    /\ Get(selection, "2")
    /\ items # <<>>

selectedCategories == IF currentStep = "category" THEN items ELSE parked

selectedGeographies == IF currentStep = "geography" THEN items ELSE parked

\* C16: the wizard moves from the category step to the geography step only
\* in a state where at least one category is selected.
C16_NextNeedsCategory ==
    [][(currentStep = "category" /\ currentStep' = "geography")
          => selectedCategories # <<>>]_vars

\* The wizard is on the geography step with two categories selected.
C16_Witness ==
    /\ currentStep = "geography"
    /\ Len(hist) > 0 /\ Last.op = "next"
    /\ Len(selectedCategories) = 2

\* C17: moving between the steps changes neither array, and once the step's
\* tree has mounted again its Selection Map marks exactly the nodes whose
\* names are in that step's array, whatever removals and clears were made
\* while the tree was not mounted.
C17_StepsKeepSelections ==
    /\ [][currentStep' # currentStep
             => /\ selectedCategories' = selectedCategories
                /\ selectedGeographies' = selectedGeographies]_vars
    /\ [](After("next") \/ After("back")
             => data = FullTree /\ Consistent(data, selection, items))

\* Back on the category step: the categories that allowed the move were
\* cleared from the geography step, where a geography was selected; then a
\* category was selected again and the wizard went forth and back.
C17_Witness ==
    /\ After("back")
    /\ selectedCategories = <<"A2a">>
    /\ selectedGeographies = <<"G1">>
    /\ Get(selection, "4")

\* C18, as stated: with the generic props supplied the engine reads the
\* selection from selectedItems in every state, the array its mutators write:
\* at every settled point the Selection Map marks exactly the names in
\* selectedItems.
C18_GenericPair ==
    (Settled /\ generic) => Consistent(data, selection, items)

\* The handler's writes have been rendered and the inbound sync that the new
\* array makes due has not run yet.
Written(op) ==
    pc = "effects" /\ "items" \in changed /\ Len(hist) > 0 /\ Last.op = op

\* C19: for toggle, toggleLowestLevel, toggleWholeSubtree and toggleSelectAll
\* issued from a settled state whose map and array agree, on a tree with unique
\* keys and names, the Selection Map the handler writes is the map the inbound
\* sync that follows computes from the new array: an entry is true exactly for
\* the nodes of the tree whose name is in the array, so the sync changes no
\* node's selected value.
C19_HandlerWritesSyncMap ==
    \A op \in SelOps :
        (/\ Written(op)
         /\ hasSetter
         /\ UniqueKeys(data) /\ UniqueNames(data)
         /\ Consistent(data, Last.sel, Last.items))
            => /\ Consistent(data, selection, items)
               /\ \A k \in DOMAIN selection :
                      selection[k] => \E n \in NodesOf(data) : getNodeKey(n) = k

\* toggleLowestLevel(A) on A{A1, A2{A2a}} from the empty selection: the map
\* and the array both hold A1 and A2a before the sync runs.
C19_Witness ==
    /\ Written("lowest")
    /\ data = CatFull
    /\ Last.key = "1"
    /\ Last.items = <<>> /\ Consistent(data, Last.sel, Last.items)
    /\ Includes(items, "A1") /\ Includes(items, "A2a")
    /\ selection # Last.sel

\* The last two operations were op1 then op2, the first issued with the
\* engine at rest, and the engine has come to rest after the second.
Two(ops1, ops2) ==
    /\ Settled
    /\ Len(hist) = 2
    /\ "rest" \in DOMAIN hist[1] /\ hist[1].rest
    /\ hist[1].op \in ops1 /\ hist[2].op \in ops2

\* The second of the two was issued before the engine came to rest after
\* the first.
BackToBack == ~hist[2].rest

\* Nothing is selected: the array is empty and no map entry is true.
NothingSelected(sel, arr) == arr = <<>> /\ Consistent(data, sel, <<>>)

\* An operation repeated on the same node from the empty selection.
Twice(ops) ==
    /\ Two(ops, ops)
    /\ hist[1].op = hist[2].op /\ hist[1].key = hist[2].key
    /\ NothingSelected(hist[1].sel, hist[1].items) /\ ~hist[1].all

Flip(set, x) == IF x \in set THEN set \ {x} ELSE set \cup {x}

\* A node's map entry after a bridge event.
EventValue(o, n, before) ==
    IF o.op = "clearAll" \/ o.name = getNodeName(n) THEN FALSE ELSE before

RECURSIVE DepthFirst(_)
RECURSIVE DepthFirstOf(_)
DepthFirstOf(nodes) ==
    IF Len(nodes) = 0 THEN <<>>
    ELSE DepthFirst(Head(nodes)) \o DepthFirstOf(Tail(nodes))
DepthFirst(n) == <<n>> \o DepthFirstOf(getNodeChildren(n))

\* The names a bulk add is to append: those of the operation's targets, in
\* depth-first order, that the array did not hold.
Appended(o) ==
    LET order == DepthFirst(NodeAt(o.key))
        names == [i \in 1..Len(order) |-> getNodeName(order[i])]
        wanted(x) == /\ \E m \in Targets(o) : getNodeName(m) = x
                     /\ ~Includes(o.items, x)
    IN SelectSeq(names, wanted)

\* C21: a bulk add (toggleLowestLevel or toggleWholeSubtree turning selection
\* on) leaves the array it found as a prefix, unmoved, and appends after it the
\* affected names that were not yet in it, in depth-first order, a parent
\* before its children and siblings in their original order.
C21_BulkAddOrder ==
    \A op \in {"lowest", "whole"} :
        (/\ After(op)
         /\ \E n \in NodesOf(data) : getNodeKey(n) = Last.key
         /\ ~IsLeaf(NodeAt(Last.key))
         /\ TurnsOn(Last))
            => items = Last.items \o Appended(Last)

\* toggleWholeSubtree(A) on A{A1, A2{A2a}} with the array holding A2 alone:
\* A, A1 and A2a follow A2.
C21_Witness ==
    /\ After("whole")
    /\ data = CatFull
    /\ Last.key = "1"
    /\ Last.items = <<"A2">>
    /\ items = <<"A2", "A", "A1", "A2a">>

\* The names of the whole tree, depth first.
AllNamesInOrder ==
    [i \in 1..Len(DepthFirstOf(data)) |-> getNodeName(DepthFirstOf(data)[i])]

\* C22: toggleSelectAll, when it turns on, sets the map entry of every node of
\* the current tree and replaces the array with the names of the current tree
\* in depth-first order, whatever the array held; when it turns off, no map
\* entry is true and the array is empty.
C22_SelectAllReplaces ==
    (After("selectAll") /\ hasSetter)
        => IF ~Last.all
           THEN /\ items = AllNamesInOrder
                /\ \A n \in NodesOf(data) : Get(selection, getNodeKey(n))
           ELSE /\ items = <<>>
                /\ \A k \in DOMAIN selection : ~selection[k]

\* Select-all turned on during a search, the array holding A1, which the
\* filtered tree does not have: A1 is gone from the array.
C22_Witness ==
    /\ After("selectAll")
    /\ ~Last.all
    /\ data = CatFiltered
    /\ Includes(Last.items, "A1")
    /\ items = <<"A", "A2", "A2a">>

\* What a plain toggle of the node of operation o leaves, from the state o
\* was issued in: the node's entry is negated; its name is appended if the
\* entry became true and the array lacked it, and removed if the entry became
\* false; the inbound sync follows unless the array was handed back as it was.
ToggleOutcome(o) ==
    LET node == NodeAt(o.key)
        was == Get(o.sel, o.key)
        kept == ~was /\ Includes(o.items, o.name)
    IN /\ Get(selection, o.key) = ~was
       /\ items = IF was THEN Without(o.items, o.name)
                  ELSE IF kept THEN o.items ELSE Append(o.items, o.name)
       /\ IF kept
          THEN \A m \in NodesOf(data) \ {node} :
                   Get(selection, getNodeKey(m)) = Get(o.sel, getNodeKey(m))
          ELSE Consistent(data, selection, items)

\* C23: toggleLowestLevel on a leaf has exactly the effect of toggle on that
\* node: from every settled state both leave the Selection Map and the array
\* of a plain toggle.
C23_LowestOnLeafIsToggle ==
    \A op \in {"toggle", "lowest"} :
        (/\ After(op)
         /\ hasSetter
         /\ \E n \in NodesOf(data) : getNodeKey(n) = Last.key
         /\ IsLeaf(NodeAt(Last.key)))
            => ToggleOutcome(Last)

\* toggleLowestLevel on the leaf A1, not selected, with other names already in
\* the array: A1 is appended.
C23_Witness ==
    /\ After("lowest")
    /\ Last.name = "A1"
    /\ ~Get(Last.sel, Last.key)
    /\ Last.items # <<>>
    /\ items = Append(Last.items, "A1")

\* C24: the clear-all bridge event empties the whole Selection Map and sets
\* the aggregate select-all flag to false, and leaves the Expansion Map and
\* the external array unchanged: the handler queues nothing for them, and the
\* render that follows it shows the empty map, the flag false, the same
\* expansion and the same array, and is at rest.
C24_ClearAllEvent ==
    /\ [][(/\ Settled
           /\ hist' # <<>>
           /\ hist'[Len(hist')].op = "clearAll"
           /\ ~Settled')
             => UNCHANGED <<expanded, expQ, items, itemsQ, data>>]_vars
    /\ [][(/\ pc = "idle" /\ ~Settled
           /\ hist # <<>> /\ Last.op = "clearAll" /\ Last.rest
           /\ inflight = 1
           /\ hist' = hist)
             => /\ selection' = EmptyMap
                /\ ~isAllSelected'
                /\ UNCHANGED <<expanded, items, data>>
                /\ Settled']_vars

\* The event arrives with every node selected and the flag true: the map is
\* empty, the flag false, and the array still holds the four names.
C24_Witness ==
    /\ Settled
    /\ hist # <<>> /\ Last.op = "clearAll" /\ Last.rest
    /\ Last.all /\ Len(Last.items) = 4
    /\ \A n \in NodesOf(data) : Get(Last.sel, getNodeKey(n))
    /\ selection = EmptyMap /\ ~isAllSelected
    /\ items = Last.items

\* The positions, in the depth-first order of the whole tree, of the nodes
\* with the given name.
Carriers(name) ==
    {i \in 1..Len(DepthFirstOf(data)) : getNodeName(DepthFirstOf(data)[i]) = name}

\* The first of them.
FirstCarrier(name) ==
    DepthFirstOf(data)[CHOOSE i \in Carriers(name) : \A j \in Carriers(name) : i <= j]

\* C25: the single-item bridge event sets the Selection Map entry of exactly
\* one node, the first in depth-first, parent-before-children order whose name
\* is itemName, to the event's selected value, and changes no other entry,
\* also when several nodes carry that name.
C25_FirstMatchOnly ==
    \A op \in BridgeOps :
        (After(op) /\ Carriers(Last.name) # {})
            => /\ Get(selection, getNodeKey(FirstCarrier(Last.name))) = (op = "bridgeOn")
               /\ \A n \in NodesOf(data) \ {FirstCarrier(Last.name)} :
                      Get(selection, getNodeKey(n)) = Get(Last.sel, getNodeKey(n))
               /\ items = Last.items

\* A deselect event names X in A{B{X}, X} with both X entries true: the entry
\* of the X under B is false, that of the other X still true.
C25_Witness ==
    /\ After("bridgeOff")
    /\ data = CatTwins
    /\ Last.name = "X"
    /\ Get(Last.sel, "5") /\ Get(Last.sel, "6")
    /\ ~Get(selection, "5") /\ Get(selection, "6")

\* The tree is not empty and the array holds the name of every node of it.
AllNamesSelected ==
    data # <<>> /\ \A n \in NodesOf(data) : Includes(items, getNodeName(n))

NoClearAllYet ==
    /\ hist # <<>> => hist[1].n = 1
    /\ \A i \in 1..Len(hist) : hist[i].op # "clearAll"

C27_NewRootsSeeded ==
    After("replace")
        => /\ \A r \in Roots(data) :
                  getNodeKey(r) \notin DOMAIN Last.exp
                      => Get(expanded, getNodeKey(r)) = initiallyExpanded
           /\ \A k \in DOMAIN Last.exp : Get(expanded, k) = Last.exp[k]

\* C28, as stated: after a forced reset every node of the tree, at every
\* depth, has the entry initiallyExpanded.
C28_ResetEveryNode ==
    After("reset")
        => \A n \in NodesOf(data) : Get(expanded, getNodeKey(n)) = initiallyExpanded

\* C28, amended: a forced reset rebuilds the Expansion Map from scratch as at
\* mount: afterwards the map has an entry for each root, equal to
\* initiallyExpanded, and no other entry, so no toggled or search-forced value
\* survives and every node below the roots shows collapsed.
C28_ResetRootsOnly ==
    After("reset")
        => /\ DOMAIN expanded = {getNodeKey(r) : r \in Roots(data)}
           /\ \A r \in Roots(data) : expanded[getNodeKey(r)] = initiallyExpanded
           /\ \A n \in NodesOf(data) \ Roots(data) : ~isExpanded(n)

\* A forced reset with initiallyExpanded = true, the root collapsed and a
\* node below it expanded before: only the root is expanded afterwards.
C28_Witness ==
    /\ After("reset")
    /\ initiallyExpanded
    /\ data = GeoFull
    /\ ~Get(Last.exp, "1") /\ Get(Last.exp, "3")
    /\ isExpanded(data[1])

\* C29, as stated, for the keys no interaction has touched yet: once the
\* engine has mounted and settled, isExpanded(node) equals initiallyExpanded
\* for every node of the tree, root or not.
C29_EveryNodeDefaults ==
    (Settled /\ hist = <<>>)
        => \A n \in NodesOf(data) : isExpanded(n) = initiallyExpanded

\* The Expansion Map updates queued for key k: a toggle of k, or a search
\* forcing k.
Touches(k) ==
    \E i \in 1..Len(expQ) : expQ[i].kind \in {"flip", "search"} /\ k \in expQ[i].keys

\* C29, amended: only the roots default to initiallyExpanded.  A node below
\* the roots whose key has not been toggled or force-expanded by search is
\* not expanded, whatever initiallyExpanded is: it is collapsed once the
\* engine has mounted, and it becomes expanded only in a render that applies
\* a toggle of its key or a search forcing it.
C29_OnlyRootsDefault ==
    /\ []((Settled /\ hist = <<>>)
            => /\ \A r \in Roots(data) : isExpanded(r) = initiallyExpanded
               /\ \A n \in NodesOf(data) \ Roots(data) : ~isExpanded(n))
    /\ [][\A n \in NodesOf(data') \ Roots(data') :
              (~isExpanded(n) /\ isExpanded(n)') => Touches(getNodeKey(n))]_vars

\* The category tree mounted with initiallyExpanded = true: A is expanded,
\* A2 below it is not.
C29_Witness ==
    /\ Settled /\ hist = <<>>
    /\ initiallyExpanded
    /\ data = CatFull
    /\ isExpanded(data[1])
    /\ ~Get(expanded, "3")

\* Every node of the tree that has a child is expanded.
BranchesOpen == \A n \in NodesOf(data) : ~IsLeaf(n) => isExpanded(n)

\* C30, as stated: while isSearching is true, at every settled point every
\* node of the supplied tree that has at least one child has Expansion Map
\* entry true, whatever operations occur during the search.
C30_BranchesOpenWhileSearching ==
    (Settled /\ isSearching) => BranchesOpen

\* C30, amended: at the settled point after every start of a search and every
\* replacement of the tree during one, every node that has a child is
\* expanded; a toggleExpand during the search, issued with the engine at rest,
\* negates its node's entry as at any other time, so a branch can be collapsed
\* until the tree is next replaced.
C30_BranchesOpenAfterSearch ==
    /\ (After("search") /\ isSearching) => BranchesOpen
    /\ (After("expand") /\ \E n \in NodesOf(data) : getNodeKey(n) = Last.key)
           => isExpanded(NodeAt(Last.key)) = ~Get(Last.exp, Last.key)

\* A search on a tree seeded collapsed opened G and G2; toggleExpand then
\* collapsed G2 while the search was still on.
C30_Witness ==
    /\ After("expand")
    /\ isSearching
    /\ ~initiallyExpanded
    /\ data = GeoFiltered
    /\ Last.key = "3"
    /\ Get(Last.exp, "1") /\ Get(Last.exp, "3")
    /\ ~isExpanded(NodeAt("3"))

\* The last operation was op, issued with the engine at rest, and the engine
\* has come to rest after it.
Done(op) == Settled /\ hist # <<>> /\ Last.op = op /\ Last.rest

\* The keys of the tree's nodes and of the entries of the two maps.
KnownKeys(before) ==
    {getNodeKey(n) : n \in NodesOf(data)} \cup DOMAIN expanded \cup DOMAIN before

\* C31: toggleExpand(node) negates isExpanded(node), an absent entry counting
\* as collapsed, and changes no other Expansion Map entry, no Selection Map
\* entry and not the external array; two consecutive calls on a node restore
\* the expanded state of every node.
C31_ToggleExpand ==
    /\ Done("expand")
           => /\ Get(expanded, Last.key) = ~Get(Last.exp, Last.key)
              /\ \A k \in KnownKeys(Last.exp) \ {Last.key} :
                     Get(expanded, k) = Get(Last.exp, k)
              /\ \A k \in DOMAIN selection \cup DOMAIN Last.sel :
                     Get(selection, k) = Get(Last.sel, k)
              /\ items = Last.items
    /\ (/\ Done("expand") /\ Len(hist) = 2
        /\ hist[1].op = "expand" /\ hist[1].rest /\ hist[1].key = Last.key)
           => \A k \in KnownKeys(hist[1].exp) : Get(expanded, k) = Get(hist[1].exp, k)

\* toggleExpand(A2) twice, A2 having no entry before, with a selection made:
\* A2 is collapsed again and the selection is as it was.
C31_Witness ==
    /\ Done("expand") /\ Len(hist) = 2
    /\ hist[1].op = "expand" /\ hist[1].rest
    /\ hist[1].key = "3" /\ Last.key = "3"
    /\ "3" \notin DOMAIN hist[1].exp
    /\ Get(Last.exp, "3") /\ ~Get(expanded, "3")
    /\ items # <<>>

\* C32: areAllLeavesSelected(node) is true if and only if every leaf reachable
\* from node has Selection Map entry true; the entries of non-leaf nodes, the
\* node's own included, do not affect it, and for a leaf it is the leaf's own
\* entry.
C32_AllLeavesSelected ==
    \A n \in NodesOf(data) :
        /\ isLowestCategorySelected(n, selection)
               <=> \A m \in LeavesUnder(n) : Get(selection, getNodeKey(m))
        /\ IsLeaf(n) => (isLowestCategorySelected(n, selection) = Get(selection, getNodeKey(n)))

\* toggleLowestLevel(A) found the leaves A1 and A2a selected and A and A2
\* not: it took the leaves as all selected and deselected them.
C32_Witness ==
    /\ After("lowest")
    /\ data = CatFull
    /\ Last.key = "1"
    /\ Get(Last.sel, "7") /\ Get(Last.sel, "4")
    /\ ~Get(Last.sel, "1") /\ ~Get(Last.sel, "3")
    /\ isLowestCategorySelected(NodeAt("1"), Last.sel)
    /\ items = <<>>

\* C33: when the summary panel removes item N, at the next settled point N is
\* absent from the array, the Selection Map entry of the node named N is not
\* true, and the array membership, the array order and the map entry of every
\* other name are unchanged.
C33_PanelRemoval ==
    After("remove")
        => /\ ~Includes(items, Last.name)
           /\ items = SelectSeq(Last.items, LAMBDA x : x # Last.name)
           /\ \A n \in NodesOf(data) :
                  Get(selection, getNodeKey(n)) =
                      (getNodeName(n) # Last.name /\ Get(Last.sel, getNodeKey(n)))

\* A2 is removed from the panel while A1 and A2a are selected too: A1 and
\* A2a stay, in their order.
C33_Witness ==
    /\ After("remove")
    /\ data = CatFull
    /\ Last.name = "A2"
    /\ Last.items = <<"A2a", "A2", "A1">>
    /\ items = <<"A2a", "A1">>
    /\ Get(selection, "7") /\ Get(selection, "4") /\ ~Get(selection, "3")

\* C34: after the wizard's Clear All with both mutators supplied, both
\* external arrays are empty and, for the mounted engine, no Selection Map
\* entry is true and isAllSelected is false at the next settled point; the
\* Expansion Map is what it was when Clear All was pressed.
C34_WizardClearAll ==
    After("clearAll")
        => /\ selectedCategories = <<>>
           /\ selectedGeographies = <<>>
           /\ \A n \in NodesOf(data) : ~Get(selection, getNodeKey(n))
           /\ ~isAllSelected
           /\ expanded = Last.exp

\* Clear All was pressed on the geography step, where the engine had
\* geographies selected while categories were kept by the host.
C34_Witness ==
    /\ After("clearAll")
    /\ currentStep = "geography"
    /\ items = <<>> /\ parked = <<>>
    /\ "1" \in DOMAIN expanded
    /\ Last.items = <<"G2a", "G1">>
    /\ Get(Last.sel, "2")
    /\ Last.name = "A1"

\* C35: the tree has unique names and the array starts without duplicates;
\* then no name occurs twice in the array after any sequence of toggle,
\* lowest, whole, selectAll, summary-panel removals and clears, with or
\* without a search in between.
C35_NoDuplicates ==
    UniqueNames(FullTree)
        => \A i, j \in 1..Len(items) : items[i] = items[j] => i = j

\* The whole-subtree operation on A has settled with all four names in the
\* array, when A2 and A1 were in the array already.
C35_Witness ==
    /\ After("whole")
    /\ Last.name = "A"
    /\ Last.items = <<"A2", "A1">>
    /\ Len(items) = 4

\* The names in the subtree of the node of the supplied tree with this key.
NamesUnderKey(key) ==
    UNION {{getNodeName(m) : m \in NodesOf(<<n>>)} :
               n \in {x \in NodesOf(data) : getNodeKey(x) = key}}

\* The elements of the array that are not in the operated node's subtree.
Outside(arr) == SelectSeq(arr, LAMBDA x : x \notin NamesUnderKey(Last.key))

\* C36: toggle, lowest and whole leave every array element whose name is not
\* in the operated node's subtree in the array, in the original relative
\* order; in particular the names of nodes hidden by the search filter stay
\* in the array.
C36_OutsideKept ==
    (After("toggle") \/ After("lowest") \/ After("whole"))
        => Outside(items) = Outside(Last.items)

\* During a search that hides A1, the whole-subtree operation on A changed
\* the array while A1, selected before the search, stayed in it.
C36_Witness ==
    /\ After("whole")
    /\ data = CatFiltered
    /\ Last.key = "1"
    /\ Includes(Last.items, "A1")
    /\ Includes(items, "A1")
    /\ items # Last.items

\* The operations on the selection.
SelectionSide == {"toggle", "lowest", "whole", "selectAll", "deselect", "clearAll"}

\* C37: no selection-side operation (toggle, lowest, whole, selectAll, a
\* bridge deselect, a bridge clear-all, each with the inbound sync it
\* triggers) changes an Expansion Map entry: once the operation has settled
\* the Expansion Map is the one it was issued with.
C37_ExpansionKept ==
    \A op \in SelectionSide : Done(op) => expanded = Last.exp

\* The whole-subtree operation on A filled the array, and the inbound sync
\* has run, while A2 had been opened by the user and the root closed.
C37_Witness ==
    /\ Done("whole")
    /\ Len(items) = 4 /\ Last.items = <<>>
    /\ Get(expanded, "3")
    /\ ~Get(expanded, "1")

\* C38: after mount and after any single input change or operation the
\* engine settles: from every state it reaches a state where no update is
\* pending and no effect is due, for every tree, the empty tree included, and
\* whether or not the array prop is supplied.
C38_EngineSettles == []<>Settled

\* The engine settles whenever the array prop is supplied and the tree has a
\* root or the Expansion Map has an entry.
SettlesWhenSeeded ==
    []<>(Settled \/ ~hasArray \/ (data = <<>> /\ DOMAIN expanded = {}))

\* With the array supplied and entries in the Expansion Map the engine is at
\* rest on the empty tree.
SettledOnEmptyTree == Settled /\ hasArray /\ data = <<>> /\ DOMAIN expanded # {}

\* The names of the nodes without children in the subtree of the node of the
\* supplied tree with this key.
LeafNamesUnderKey(key) ==
    UNION {{getNodeName(m) : m \in {x \in NodesOf(<<n>>) : Len(getNodeChildren(x)) = 0}} :
               n \in {x \in NodesOf(data) : getNodeKey(x) = key}}

\* The array of the record and the array now agree outside the names S, and
\* the names in S are now all in the array, or all out when they were all in.
Switched(S) ==
    /\ SelectSeq(items, LAMBDA x : x \notin S) = SelectSeq(Last.items, LAMBDA x : x \notin S)
    /\ \A x \in S : Includes(items, x) = ~(\A y \in S : Includes(Last.items, y))

\* C39: the whole-subtree and lowest-level operations take the names from the
\* tree currently supplied: while a search is active exactly the names of the
\* operated node's subtree in the filtered tree (for lowest: of the nodes
\* without children in it) are added or removed and every other name keeps
\* its place; a node whose children were all pruned by the filter is a leaf.
C39_NamesFromSuppliedTree ==
    /\ After("whole") => Switched(NamesUnderKey(Last.key))
    /\ After("lowest") => Switched(LeafNamesUnderKey(Last.key))

\* The search kept A2 and pruned its only child: the lowest-level operation
\* on A selected A2, and neither A1 nor A2a.
C39_Witness ==
    /\ After("lowest")
    /\ isSearching
    /\ data = filterItems(CatFull, {"A2"})
    /\ NodesOf(data) # NodesOf(CatFiltered)
    /\ Last.key = "1"
    /\ Last.items = <<"A1">>
    /\ items = <<"A1", "A2">>

====
